----------------------------- MODULE Spec2Model -----------------------------
(***************************************************************************)
(* A model of the nitro-cli static site generator: the incremental build   *)
(* cache (core/cache.py), the generation pipeline (core/generator.py), the *)
(* file watcher (core/watcher.py), the live-reload server (core/server.py) *)
(* and the serve command that wires them together (commands/serve.py).     *)
(***************************************************************************)
EXTENDS Integers, Sequences, FiniteSets, TLC

(***************************************************************************)
(* Bounds of the model.                                                    *)
(***************************************************************************)
NumPages == 4
SmallPages == 2
MaxVer == 2
MaxRuns == 2
MaxBuilds == 3
MaxEdits == 1
MaxFaults == 1

(***************************************************************************)
(* Files and hashes.  A file's content is a version number 1..MaxVer;      *)
(* Absent stands for a path that does not exist.  _get_file_hash returns   *)
(* None for a missing file and a digest prefix otherwise; digests of       *)
(* distinct contents are distinct (collisions are not modelled).           *)
(***************************************************************************)
Absent == 0
None == 0
NoEntry == -1
ParallelMin == 4

Pages == 1..NumPages
Vers == 1..MaxVer
CompFiles == {"header"}
DataFiles == {"site"}

Hash(c) == IF c = Absent THEN None ELSE 100 + c

VARIABLES
    pageSrc,    \* static page sources under src/pages: page -> content or Absent
    dyn,        \* a dynamic route file ([slug].py) exists under src/pages
    compDir,    \* src/components exists
    comps,      \* component file -> content or Absent
    dataDir,    \* src/data exists
    datas,      \* data file -> content or Absent
    cfg,        \* nitro.config.py: content or Absent
    assets,     \* src/styles or src/public holds files
    disk,       \* .nitro/cache.json
    genPc,      \* position of the process inside Generator / generate()
    mem,        \* BuildCache._cache of the current Generator
    forceArg,   \* generate(force=...) as passed by the caller
    force,      \* the local variable force
    toBuild,    \* pages_to_build, in sorted order
    pos,        \* index of the sequential loop
    st,         \* parallel path: state of each page's future
    doneQ,      \* parallel path: completed futures not yet seen by as_completed
    failed,     \* failed_pages
    successCount,
    ret,        \* value returned by generate(): "none", "true", "false"
    report,     \* last summary line logged by generate()
    written,    \* output files written by the current run
    attempted,  \* pages render_page was called on in the current run
    updated,    \* pages update_page_hash was called on in the current run
    saved,      \* cache.save() was called in the current run
    wrote,      \* the current run wrote something into the build directory
    disk0,      \* .nitro/cache.json as it was when the run started
    stale,      \* page -> an input changed since its last successful render
    lastFailed, \* page -> its most recent render attempt failed
    lastClean,  \* the last finished run was not asked to force, returned true
                \* and had no failed page
    edited,     \* a source file changed since the last run started
    second,     \* this run follows a clean run with no change in between
    runsLeft, editsLeft, faultsLeft,
    reqPath,    \* the path of the HTTP request being served
    resp,       \* the response to it
    now,        \* time.time(), in ticks of 0.1 s
    last_modified, \* NitroFileHandler.last_modified: file -> time or NoEntry
    callbacks,  \* number of on_change invocations so far
    prevEvent,  \* file -> time of the previous modification event on it
    lastInvoked,\* file -> time of the last modification event on it that
                \* invoked the callback
    evt,        \* the event the handler has just processed
    srvPc,      \* position of serve_async
    events,     \* the paths the watcher called back with, in arrival order
    ready,      \* the event loop's queue of runnable on_file_change tasks
    hPc,        \* position of each on_file_change task
    locked,     \* regeneration_lock._locked
    waiters,    \* regeneration_lock._waiters
    entered,    \* the tasks that took the lock, in the order they took it
    actRes,     \* outcome of the action of the task holding the lock
    websockets, \* LiveReloadServer.websockets
    conn,       \* state of each client's connection
    snapshot,   \* notify_reload: list(self.websockets)
    idx,        \* notify_reload: position in the snapshot
    dead,       \* notify_reload: dead_sockets
    sentTo,     \* clients the current broadcast's message was sent to
    targets,    \* the client set when the current broadcast was started
    bcast       \* "none", "running" or "finished"

VARIABLES
    buildOpts,  \* build: the flags minify, optimize, responsive, fingerprint, islands
    buildPos,   \* build: index in BuildPlan of the step to do next; 0 after exit
    buildTrace, \* build: the steps carried out so far, in order
    genResult,  \* build: outcome of generator.generate(): "none", "true", "false", "raised"
    exitCode    \* build: NoEntry while running, then the process exit code

VARIABLES
    deployOpts, \* deploy: the options --platform and --build/--no-build
    rootFiles,  \* deploy: the platform config files present in the project root
    installed,  \* deploy: the platform tools shutil.which finds
    buildDirExists, \* deploy: build_dir.exists()
    deployPc,   \* deploy: "start", "built", "chosen" or "done"
    buildOutcome, \* deploy: "none", "ok" or "failed"
    chosen,     \* deploy: the platform deployed to, or "none"
    invoked,    \* deploy: the tool run by subprocess.run, or "none"
    deployExit  \* deploy: NoEntry while running, then the exit code

VARIABLES
    dynStem,    \* dynamic route: the stem of the page file name, as tokens
    dynSets,    \* dynamic route: what get_paths() returns, with each set's fate
    dynPc,      \* dynamic route: "start", "rendered" or "written"
    dynResults, \* dynamic route: the list render_dynamic_page returns
    dynWritten  \* dynamic route: the output names written, in order

VARIABLES
    fpFiles,    \* fingerprint: the .css/.js files in the build directory: path -> content
    fpOrder,    \* fingerprint: the files in the order rglob yields them
    fpHtml,     \* fingerprint: the href/src attribute value held by each HTML file
    fpPc,       \* fingerprint: "start" or "done"
    fpFiles0,   \* fingerprint: the files before the call
    fpHtml0,    \* fingerprint: the attribute values before the call
    path_mapping \* fingerprint: the returned dict, as (old, new) pairs in insertion order

VARIABLES
    base_url,   \* sitemap: the base URL, as tokens
    html_files, \* sitemap: the built HTML files, each as its segments under the build directory
    smPc,       \* sitemap: "start" or "done"
    urls        \* sitemap: the entries generate_sitemap builds

VARIABLES
    heap,       \* data store: the map objects in memory, by address
    store_data, \* data store: the address of the parent store's _data
    wrapper,    \* data store: the wrapper a subscript returned, or NoWrapper
    opLog       \* data store (history): the operations made, in order

VARIABLES
    tidy_data,  \* remove_empty: the store's _data, as a value
    tidyLog     \* remove_empty (history): per call, the value before and the count returned

VARIABLES
    rgSrc,      \* regenerate: page -> the version of its source
    rgOut,      \* regenerate: output file -> the HTML it holds, or NoHtml
    rgMem,      \* regenerate: the page table of BuildCache._cache
    rgDisk,     \* regenerate: the page table of .nitro/cache.json
    hook,       \* regenerate: what the loaded plugins' post-generate hooks return
    rgLog       \* regenerate (history): the calls made, each with the state before it

VARIABLES
    chgPath,    \* change handler: the absolute path the watcher delivered, as segments
    chgMode,    \* change handler: "serve" or "generate --watch"
    chgDone     \* change handler: the action the handler took, "none" before it ran

VARIABLES
    evPath,     \* ignore rules: the path of the file system event, as segments under the project root
    evKind,     \* ignore rules: "modified" or "created"
    evRecent,   \* ignore rules: the path was modified less than debounce_seconds ago
    evCalled    \* ignore rules: "pending", then "called" or "dropped"

VARIABLES
    sys_path,   \* parallel render: the entries of sys.path the renderer adds, in order
    rpPc,       \* parallel render: worker -> its position in render_page
    rpAbsent,   \* parallel render: worker -> what its last "not in sys.path" test found
    paths_to_remove \* parallel render: worker -> its local list paths_to_remove

VARIABLES
    asSrc,      \* assets: file under src/styles or src/public -> its version, Absent when missing
    asBuild,    \* assets: path under the build directory -> the copy it holds, or NoCopy
    asPages,    \* assets: src/pages holds a page
    asDynamic,  \* assets: src/pages holds a dynamic route
    asStale,    \* assets: the cache finds a static page to rebuild
    asLast      \* assets (history): the last step, and for generate() how it ended

VARIABLES
    rbSrc,      \* rebuild: page -> whether its source holds an island and a stylesheet link
    rbFlags,    \* rebuild: the options every run of the command is given
    rbAssets,   \* rebuild: the .css/.js files of the build directory
    rbHtml,     \* rebuild: page -> the HTML file the build directory holds for it
    rbCached,   \* rebuild: the cache records every page as built from its present source
    rbRuns,     \* rebuild (history): how many runs of the command have ended
    rbPrev      \* rebuild (history): the build directory when the run before the last ended

VARIABLES
    svConfig,      \* served: the build_dir that nitro.config.py names
    svSource,      \* served: the version of the page's source
    svGenerator,   \* served: generator.build_dir of the Generator in use
    svServer,      \* served: server.build_dir
    svDisk,        \* served: directory -> version of the page it holds, 0 for none
    svCache,       \* served: the configuration and page version the cache records
    svEdits,       \* served (history): how many edits the author has made
    svReply        \* served (history): the directory and version of the last reply

VARIABLES
    watcher,    \* serve_async: "none" (no live reload), "running", "stopped"
    shutPc,     \* position of serve_async from the wait for the signal on
    stopList,   \* LiveReloadServer.stop: sockets of its list still to close
    closed1001, \* clients stop() sent the close frame with code 1001 to
    runner,     \* the HTTP listener: "up" or "released"
    steps       \* the shutdown steps completed so far, in order

VARIABLES
    cacheFile,  \* what .nitro/cache.json holds when a BuildCache is made
    loadPc,     \* "start", "constructed", "generated" or "raised"
    loadErr,    \* the exception that escaped, or "none"
    cacheObj,   \* BuildCache._cache: "unset", "empty" or "data" (the parsed file)
    fullRebuild \* generate() rebuilt every static page

buildVars == <<buildOpts, buildPos, buildTrace, genResult, exitCode>>
deployVars == <<deployOpts, rootFiles, installed, buildDirExists, deployPc,
                buildOutcome, chosen, invoked, deployExit>>
dynVars == <<dynStem, dynSets, dynPc, dynResults, dynWritten>>
fpVars == <<fpFiles, fpOrder, fpHtml, fpPc, fpFiles0, fpHtml0, path_mapping>>
smVars == <<base_url, html_files, smPc, urls>>
storeVars == <<heap, store_data, wrapper, opLog>>
tidyVars == <<tidy_data, tidyLog>>
regenVars == <<rgSrc, rgOut, rgMem, rgDisk, hook, rgLog>>
chgVars == <<chgPath, chgMode, chgDone>>
ignVars == <<evPath, evKind, evRecent, evCalled>>
rpVars == <<sys_path, rpPc, rpAbsent, paths_to_remove>>
assetVars == <<asSrc, asBuild, asPages, asDynamic, asStale, asLast>>
rebuildVars == <<rbSrc, rbFlags, rbAssets, rbHtml, rbCached, rbRuns, rbPrev>>
servedVars == <<svConfig, svSource, svGenerator, svServer, svDisk, svCache,
                svEdits, svReply>>
shutVars == <<watcher, shutPc, stopList, closed1001, runner, steps>>
loadVars == <<cacheFile, loadPc, loadErr, cacheObj, fullRebuild>>
toolVars == <<shutVars, loadVars, buildVars, deployVars, dynVars, fpVars,
              smVars, storeVars, tidyVars, regenVars, chgVars, ignVars,
              rpVars, assetVars, rebuildVars, servedVars>>

srcVars == <<pageSrc, dyn, compDir, comps, dataDir, datas, cfg, assets>>
runVars == <<genPc, mem, forceArg, force, toBuild, pos, st, doneQ, failed,
             successCount, ret, report>>
histVars == <<written, attempted, updated, saved, wrote, disk0, stale,
              lastFailed, lastClean, edited, second, runsLeft, editsLeft, faultsLeft>>
httpVars == <<reqPath, resp>>
watchVars == <<now, last_modified, callbacks, prevEvent, lastInvoked, evt>>
lockVars == <<ready, hPc, locked, waiters, entered>>
wsVars == <<websockets, conn, snapshot, idx, dead, sentTo, targets, bcast>>
serveVars == <<srvPc, events, actRes, lockVars, wsVars>>
coreVars == <<srcVars, disk, runVars, histVars, httpVars, watchVars, serveVars>>
otherVars == <<httpVars, watchVars, serveVars, toolVars>>
vars == <<srcVars, disk, runVars, histVars, otherVars>>

(***************************************************************************)
(* core/cache.py                                                           *)
(***************************************************************************)
EmptyCache ==
    [pages |-> [p \in Pages |-> NoEntry],
     components |-> [c \in CompFiles |-> NoEntry],
     data |-> [d \in DataFiles |-> NoEntry],
     config_hash |-> None]

NoCacheFile == [file |-> "missing", content |-> EmptyCache]

\* BuildCache._load_cache: a missing, unparseable or wrong-version file
\* gives the empty cache.
LoadCache(d) == IF d.file = "valid" THEN d.content ELSE EmptyCache

\* dict.get(key) on a hash table: None for a missing key.
Get(table, k) == IF table[k] = NoEntry THEN None ELSE table[k]

\* The hashes of the files found by rglob under a directory.
CurrentHashes(files) ==
    [f \in DOMAIN files |->
        IF files[f] = Absent THEN NoEntry ELSE Hash(files[f])]

\* The loop bodies of _update_component_hashes / _update_data_hashes:
\* a present file whose hash differs from the cached one, or a cached
\* path that is no longer present.
HashesChanged(cached, files) ==
    \/ \E f \in DOMAIN files :
          files[f] # Absent /\ Hash(files[f]) # Get(cached, f)
    \/ \E f \in DOMAIN cached :
          cached[f] # NoEntry /\ CurrentHashes(files)[f] = NoEntry

ComponentsChanged(c) ==
    IF ~compDir THEN FALSE ELSE HashesChanged(c.components, comps)

UpdateComponentHashes(c) ==
    IF ~compDir THEN c ELSE [c EXCEPT !.components = CurrentHashes(comps)]

DataChanged(c) ==
    IF ~dataDir THEN FALSE ELSE HashesChanged(c.data, datas)

UpdateDataHashes(c) ==
    IF ~dataDir THEN c ELSE [c EXCEPT !.data = CurrentHashes(datas)]

\* The condition of BuildCache.get_changed_pages for one page.
PageChanged(c, p) ==
    \/ Hash(pageSrc[p]) # Get(c.pages, p)
    \/ ComponentsChanged(c)
    \/ DataChanged(c)
    \/ c.pages[p] = NoEntry

ChangedPages(c, pages) == {p \in pages : PageChanged(c, p)}

\* The cache after get_changed_pages.
AfterChangedPages(c) == UpdateDataHashes(UpdateComponentHashes(c))

UpdatePageHash(c, p) == [c EXCEPT !.pages[p] = Hash(pageSrc[p])]

IsConfigChanged(c) == Hash(cfg) # c.config_hash

UpdateConfigHash(c) == [c EXCEPT !.config_hash = Hash(cfg)]

(***************************************************************************)
(* core/generator.py                                                       *)
(***************************************************************************)
\* _find_pages, split into static pages and dynamic routes.
StaticPages == {p \in Pages : pageSrc[p] # Absent}

RECURSIVE SortedSeq(_)
SortedSeq(S) ==
    IF S = {} THEN <<>>
    ELSE LET m == CHOOSE x \in S : \A y \in S : x <= y
         IN <<m>> \o SortedSeq(S \ {m})

Range(s) == {s[i] : i \in 1..Len(s)}

Running == {"sequential", "seq_update", "parallel", "dynamic", "save", "assets"}
Ended == {"none", "returned", "raised", "stopped"}

\* Entry into generate(): the locals of the call are fresh.
BeginRun ==
    /\ genPc' = "ready"
    /\ second' = (lastClean /\ ~edited)
    /\ edited' = FALSE
    /\ disk0' = disk
    /\ forceArg' = FALSE /\ force' = FALSE
    /\ toBuild' = <<>> /\ pos' = 1
    /\ st' = [p \in Pages |-> "none"] /\ doneQ' = <<>>
    /\ failed' = <<>> /\ successCount' = 0
    /\ ret' = "none" /\ report' = "none"
    /\ written' = {} /\ attempted' = {} /\ updated' = {}
    /\ saved' = FALSE /\ wrote' = FALSE

\* Generator.__init__ followed by the call of generate(): a fresh
\* BuildCache is loaded from disk.
NewGenerator ==
    /\ genPc \in Ended
    /\ runsLeft > 0
    /\ mem' = LoadCache(disk)
    /\ runsLeft' = runsLeft - 1
    /\ BeginRun
    /\ UNCHANGED <<srcVars, disk, stale, lastFailed, lastClean, editsLeft, faultsLeft>>
    /\ UNCHANGED otherVars

\* generate(), lines 89-97: the configuration check.
ForceAfterConfig(f) == f \/ (cfg # Absent /\ IsConfigChanged(mem))
CacheAfterConfig == IF cfg # Absent THEN UpdateConfigHash(mem) ELSE mem

\* generate(), lines 112-117: no page file at all.
GenNoPages(f) ==
    /\ genPc = "ready"
    /\ StaticPages = {} /\ ~dyn
    /\ forceArg' = f
    /\ force' = ForceAfterConfig(f)
    /\ mem' = CacheAfterConfig
    /\ ret' = "false" /\ report' = "no pages"
    /\ genPc' = "returned"
    /\ lastClean' = FALSE
    /\ UNCHANGED <<srcVars, disk, toBuild, pos, st, doneQ, failed, successCount,
                   written, attempted, updated, saved, wrote, disk0, stale,
                   lastFailed, edited, second, runsLeft, editsLeft, faultsLeft>>
    /\ UNCHANGED otherVars

\* generate(), lines 129-138: nothing changed and no dynamic route.
GenUpToDate(f) ==
    /\ genPc = "ready"
    /\ ~(StaticPages = {} /\ ~dyn)
    /\ ~ForceAfterConfig(f)
    /\ ChangedPages(CacheAfterConfig, StaticPages) = {}
    /\ ~dyn
    /\ forceArg' = f
    /\ force' = FALSE
    /\ mem' = AfterChangedPages(CacheAfterConfig)
    /\ ret' = "true" /\ report' = "up to date"
    /\ genPc' = "returned"
    /\ lastClean' = TRUE
    /\ UNCHANGED <<srcVars, disk, toBuild, pos, st, doneQ, failed, successCount,
                   written, attempted, updated, saved, wrote, disk0, stale,
                   lastFailed, edited, second, runsLeft, editsLeft, faultsLeft>>
    /\ UNCHANGED otherVars

\* generate(), lines 129-172: the rebuild set and the rendering path.
RebuildSet(f) ==
    IF ForceAfterConfig(f)
    THEN SortedSeq(StaticPages)
    ELSE SortedSeq(ChangedPages(CacheAfterConfig, StaticPages))

UseParallel(par, n) == par /\ n > 1 /\ n >= ParallelMin

GenSelect(f, par) ==
    /\ genPc = "ready"
    /\ ~(StaticPages = {} /\ ~dyn)
    /\ ForceAfterConfig(f) \/ RebuildSet(f) # <<>> \/ dyn
    /\ forceArg' = f
    /\ force' = ForceAfterConfig(f)
    /\ mem' = IF ForceAfterConfig(f) THEN CacheAfterConfig
              ELSE AfterChangedPages(CacheAfterConfig)
    /\ toBuild' = RebuildSet(f)
    /\ pos' = 1
    /\ IF UseParallel(par, Len(RebuildSet(f)))
       THEN /\ genPc' = "parallel"
            /\ st' = [p \in Pages |->
                        IF p \in Range(RebuildSet(f)) THEN "queued" ELSE "none"]
       ELSE /\ genPc' = "sequential"
            /\ st' = st
    /\ UNCHANGED <<srcVars, disk, doneQ, failed, successCount, ret, report,
                   histVars>>
    /\ UNCHANGED otherVars

\* Sequential path, lines 207-245: render_page returns HTML, the
\* post-generate hook runs and the file is written.
SeqRenderOk ==
    /\ genPc = "sequential"
    /\ pos <= Len(toBuild)
    /\ LET p == toBuild[pos] IN
        /\ attempted' = attempted \cup {p}
        /\ written' = written \cup {p}
        /\ wrote' = TRUE
        /\ stale' = [stale EXCEPT ![p] = FALSE]
        /\ lastFailed' = [lastFailed EXCEPT ![p] = FALSE]
    /\ successCount' = successCount + 1
    /\ genPc' = "seq_update"
    /\ UNCHANGED <<srcVars, disk, mem, forceArg, force, toBuild, pos, st, doneQ,
                   failed, ret, report, updated, saved, disk0, lastClean,
                   edited, second, runsLeft, editsLeft, faultsLeft>>
    /\ UNCHANGED otherVars

\* Sequential path, lines 247-249: update_page_hash after the write.
SeqUpdate ==
    /\ genPc = "seq_update"
    /\ mem' = UpdatePageHash(mem, toBuild[pos])
    /\ updated' = updated \cup {toBuild[pos]}
    /\ pos' = pos + 1
    /\ genPc' = "sequential"
    /\ UNCHANGED <<srcVars, disk, forceArg, force, toBuild, st, doneQ, failed,
                   successCount, ret, report, written, attempted, saved, wrote,
                   disk0, stale, lastFailed, lastClean, edited, second, runsLeft,
                   editsLeft, faultsLeft>>
    /\ UNCHANGED otherVars

\* Sequential path, lines 215 and 255-256: render_page returned None.
SeqRenderFail ==
    /\ genPc = "sequential"
    /\ pos <= Len(toBuild)
    /\ faultsLeft > 0
    /\ faultsLeft' = faultsLeft - 1
    /\ attempted' = attempted \cup {toBuild[pos]}
    /\ lastFailed' = [lastFailed EXCEPT ![toBuild[pos]] = TRUE]
    /\ failed' = Append(failed, toBuild[pos])
    /\ pos' = pos + 1
    /\ UNCHANGED <<srcVars, disk, genPc, mem, forceArg, force, toBuild, st,
                   doneQ, successCount, ret, report, written, updated, saved,
                   wrote, disk0, stale, lastClean, edited, second, runsLeft, editsLeft>>
    /\ UNCHANGED otherVars

\* Sequential path, lines 241-244: mkdir or write_text raises; nothing in
\* generate() catches it, so the exception leaves generate().
SeqWriteFail ==
    /\ genPc = "sequential"
    /\ pos <= Len(toBuild)
    /\ faultsLeft > 0
    /\ faultsLeft' = faultsLeft - 1
    /\ attempted' = attempted \cup {toBuild[pos]}
    /\ lastFailed' = [lastFailed EXCEPT ![toBuild[pos]] = TRUE]
    /\ genPc' = "raised"
    /\ lastClean' = FALSE
    /\ UNCHANGED <<srcVars, disk, mem, forceArg, force, toBuild, pos, st, doneQ,
                   failed, successCount, ret, report, written, updated, saved,
                   wrote, disk0, stale, edited, second, runsLeft, editsLeft>>
    /\ UNCHANGED otherVars

SeqDone ==
    /\ genPc = "sequential"
    /\ pos > Len(toBuild)
    /\ genPc' = "dynamic"
    /\ UNCHANGED <<srcVars, disk, mem, forceArg, force, toBuild, pos, st, doneQ,
                   failed, successCount, ret, report, histVars>>
    /\ UNCHANGED otherVars

\* Parallel path, _render_single_page (lines 340-390) in a worker thread:
\* the page is rendered and written, the future completes with True.
ParWorkerOk(p) ==
    /\ genPc = "parallel"
    /\ st[p] = "queued"
    /\ st' = [st EXCEPT ![p] = "true"]
    /\ doneQ' = Append(doneQ, p)
    /\ attempted' = attempted \cup {p}
    /\ written' = written \cup {p}
    /\ wrote' = TRUE
    /\ stale' = [stale EXCEPT ![p] = FALSE]
    /\ lastFailed' = [lastFailed EXCEPT ![p] = FALSE]
    /\ UNCHANGED <<srcVars, disk, genPc, mem, forceArg, force, toBuild, pos,
                   failed, successCount, ret, report, updated, saved, disk0,
                   lastClean, edited, second, runsLeft, editsLeft, faultsLeft>>
    /\ UNCHANGED otherVars

\* _render_single_page: the render returns None or anything raises (the
\* write included); the future completes with False.
ParWorkerFail(p) ==
    /\ genPc = "parallel"
    /\ st[p] = "queued"
    /\ faultsLeft > 0
    /\ faultsLeft' = faultsLeft - 1
    /\ st' = [st EXCEPT ![p] = "false"]
    /\ doneQ' = Append(doneQ, p)
    /\ attempted' = attempted \cup {p}
    /\ lastFailed' = [lastFailed EXCEPT ![p] = TRUE]
    /\ UNCHANGED <<srcVars, disk, genPc, mem, forceArg, force, toBuild, pos,
                   failed, successCount, ret, report, written, updated, saved,
                   wrote, disk0, stale, lastClean, edited, second, runsLeft, editsLeft>>
    /\ UNCHANGED otherVars

\* Line 193, "if result:": the page counts as built, and its hash is
\* recorded, only when its future returned True.
C7_MutantFutureSucceeded(result) == TRUE

FutureSucceeded(result) == result = "true"

\* Parallel path, lines 189-204: the main thread takes the next completed
\* future.
ParCollect ==
    /\ genPc = "parallel"
    /\ doneQ # <<>>
    /\ LET p == Head(doneQ) IN
        /\ doneQ' = Tail(doneQ)
        /\ st' = [st EXCEPT ![p] = "collected"]
        /\ IF FutureSucceeded(st[p])
           THEN /\ successCount' = successCount + 1
                /\ mem' = UpdatePageHash(mem, p)
                /\ updated' = updated \cup {p}
                /\ failed' = failed
           ELSE /\ failed' = Append(failed, p)
                /\ UNCHANGED <<successCount, mem, updated>>
    /\ UNCHANGED <<srcVars, disk, genPc, forceArg, force, toBuild, pos, ret,
                   report, written, attempted, saved, wrote, disk0, stale,
                   lastFailed, lastClean, edited, second, runsLeft, editsLeft, faultsLeft>>
    /\ UNCHANGED otherVars

ParDone ==
    /\ genPc = "parallel"
    /\ \A p \in Range(toBuild) : st[p] = "collected"
    /\ genPc' = "dynamic"
    /\ UNCHANGED <<srcVars, disk, mem, forceArg, force, toBuild, pos, st, doneQ,
                   failed, successCount, ret, report, histVars>>
    /\ UNCHANGED otherVars

\* Lines 271-303: every dynamic route is rendered and written.
GenDynamic ==
    /\ genPc = "dynamic"
    /\ wrote' = (wrote \/ dyn)
    /\ genPc' = "save"
    /\ UNCHANGED <<srcVars, disk, mem, forceArg, force, toBuild, pos, st, doneQ,
                   failed, successCount, ret, report, written, attempted,
                   updated, saved, disk0, stale, lastFailed, lastClean, edited,
                   second, runsLeft, editsLeft, faultsLeft>>
    /\ UNCHANGED otherVars

\* Lines 305-307: cache.save().
GenSave ==
    /\ genPc = "save"
    /\ disk' = [file |-> "valid", content |-> mem]
    /\ saved' = TRUE
    /\ genPc' = "assets"
    /\ UNCHANGED <<srcVars, mem, forceArg, force, toBuild, pos, st, doneQ,
                   failed, successCount, ret, report, written, attempted,
                   updated, wrote, disk0, stale, lastFailed, lastClean, edited,
                   second, runsLeft, editsLeft, faultsLeft>>
    /\ UNCHANGED otherVars

\* Lines 309-319: _copy_assets, then return True.
GenFinish ==
    /\ genPc = "assets"
    /\ wrote' = (wrote \/ assets)
    /\ ret' = "true" /\ report' = "complete"
    /\ genPc' = "returned"
    /\ lastClean' = (failed = <<>> /\ ~forceArg)
    /\ UNCHANGED <<srcVars, disk, mem, forceArg, force, toBuild, pos, st, doneQ,
                   failed, successCount, written, attempted, updated, saved,
                   disk0, stale, lastFailed, edited, second, runsLeft, editsLeft, faultsLeft>>
    /\ UNCHANGED otherVars

\* The process is killed in the middle of generate(): everything it held in
\* memory is lost, the files stay as they are.
Crash ==
    /\ genPc \in Running
    /\ genPc' = "stopped"
    /\ mem' = EmptyCache
    /\ forceArg' = FALSE /\ force' = FALSE
    /\ toBuild' = <<>> /\ pos' = 1
    /\ st' = [p \in Pages |-> "none"] /\ doneQ' = <<>>
    /\ failed' = <<>> /\ successCount' = 0
    /\ lastClean' = FALSE
    /\ UNCHANGED <<srcVars, disk, ret, report, written, attempted,
                   updated, saved, wrote, disk0, stale, lastFailed, edited,
                   second, runsLeft, editsLeft, faultsLeft>>
    /\ UNCHANGED otherVars

(***************************************************************************)
(* The author edits the project between two runs.                          *)
(***************************************************************************)
AllStale == [p \in Pages |-> TRUE]

EditPage(p, v) ==
    /\ genPc \in Ended /\ editsLeft > 0
    /\ pageSrc[p] # Absent /\ v # pageSrc[p]
    /\ pageSrc' = [pageSrc EXCEPT ![p] = v]
    /\ stale' = [stale EXCEPT ![p] = TRUE]
    /\ edited' = TRUE /\ editsLeft' = editsLeft - 1
    /\ UNCHANGED <<dyn, compDir, comps, dataDir, datas, cfg, assets, disk,
                   runVars, written, attempted, updated, saved, wrote, disk0,
                   lastFailed, lastClean, second, runsLeft, faultsLeft>>
    /\ UNCHANGED otherVars

\* A component file is created, changed or deleted.
EditComponent(c, v) ==
    /\ genPc \in Ended /\ editsLeft > 0
    /\ compDir /\ v # comps[c]
    /\ comps' = [comps EXCEPT ![c] = v]
    /\ stale' = AllStale
    /\ edited' = TRUE /\ editsLeft' = editsLeft - 1
    /\ UNCHANGED <<pageSrc, dyn, compDir, dataDir, datas, cfg, assets, disk,
                   runVars, written, attempted, updated, saved, wrote, disk0,
                   lastFailed, lastClean, second, runsLeft, faultsLeft>>
    /\ UNCHANGED otherVars

EditConfig(v) ==
    /\ genPc \in Ended /\ editsLeft > 0
    /\ v # cfg
    /\ cfg' = v
    /\ stale' = AllStale
    /\ edited' = TRUE /\ editsLeft' = editsLeft - 1
    /\ UNCHANGED <<pageSrc, dyn, compDir, comps, dataDir, datas, assets, disk,
                   runVars, written, attempted, updated, saved, wrote, disk0,
                   lastFailed, lastClean, second, runsLeft, faultsLeft>>
    /\ UNCHANGED otherVars

(***************************************************************************)
(* Repeated builds of one project (nitro generate / nitro build).          *)
(***************************************************************************)
InitRun ==
    /\ genPc = "none"
    /\ mem = EmptyCache
    /\ forceArg = FALSE /\ force = FALSE
    /\ toBuild = <<>> /\ pos = 1
    /\ st = [p \in Pages |-> "none"] /\ doneQ = <<>>
    /\ failed = <<>> /\ successCount = 0
    /\ ret = "none" /\ report = "none"

InitHist ==
    /\ written = {} /\ attempted = {} /\ updated = {}
    /\ saved = FALSE /\ wrote = FALSE
    /\ disk0 = NoCacheFile
    /\ stale = AllStale
    /\ lastFailed = [p \in Pages |-> FALSE]
    /\ lastClean = FALSE /\ edited = FALSE /\ second = FALSE

\* The parts of the program a specification does not exercise stay as
\* they are constructed.
IdleHttp ==
    /\ reqPath = <<>>
    /\ resp = [status |-> 0, file |-> <<>>]

IdleWatch ==
    /\ now = 0
    /\ last_modified = <<>>
    /\ callbacks = 0
    /\ prevEvent = <<>>
    /\ lastInvoked = <<>>
    /\ evt = [kind |-> "none"]

IdleServe ==
    /\ srvPc = "init"
    /\ events = <<>>
    /\ ready = <<>>
    /\ hPc = <<>>
    /\ locked = FALSE
    /\ waiters = <<>>
    /\ entered = <<>>
    /\ actRes = "none"
    /\ websockets = {}
    /\ conn = <<>>
    /\ snapshot = <<>>
    /\ idx = 1
    /\ dead = {}
    /\ sentTo = {}
    /\ targets = {}
    /\ bcast = "none"

\* No project files, no cache file and no generator at work.
IdleSite ==
    /\ pageSrc = [p \in Pages |-> Absent]
    /\ dyn = FALSE
    /\ compDir = FALSE
    /\ comps = [c \in CompFiles |-> Absent]
    /\ dataDir = FALSE
    /\ datas = [d \in DataFiles |-> Absent]
    /\ cfg = Absent
    /\ assets = FALSE
    /\ disk = NoCacheFile
    /\ InitRun
    /\ InitHist
    /\ runsLeft = 0 /\ editsLeft = 0 /\ faultsLeft = 0

\* The commands and tools a specification does not exercise stay as
\* they are before use; own names the parts it sets up itself.
IdleTools(own) ==
    /\ IF "shutdown" \in own THEN TRUE
       ELSE /\ watcher = "none"
            /\ shutPc = "none"
            /\ stopList = {}
            /\ closed1001 = {}
            /\ runner = "up"
            /\ steps = <<>>
    /\ IF "load" \in own THEN TRUE
       ELSE /\ cacheFile = [form |-> "missing"]
            /\ loadPc = "start"
            /\ loadErr = "none"
            /\ cacheObj = "unset"
            /\ fullRebuild = FALSE
    /\ IF "build" \in own THEN TRUE
       ELSE /\ buildOpts = <<>>
            /\ buildPos = 0
            /\ buildTrace = <<>>
            /\ genResult = "none"
            /\ exitCode = NoEntry
    /\ IF "deploy" \in own THEN TRUE
       ELSE /\ deployOpts = <<>>
            /\ rootFiles = {}
            /\ installed = {}
            /\ buildDirExists = FALSE
            /\ deployPc = "none"
            /\ buildOutcome = "none"
            /\ chosen = "none"
            /\ invoked = "none"
            /\ deployExit = NoEntry
    /\ IF "dynamic" \in own THEN TRUE
       ELSE /\ dynStem = <<>>
            /\ dynSets = <<>>
            /\ dynPc = "none"
            /\ dynResults = <<>>
            /\ dynWritten = <<>>
    /\ IF "fingerprint" \in own THEN TRUE
       ELSE /\ fpFiles = <<>>
            /\ fpOrder = <<>>
            /\ fpHtml = <<>>
            /\ fpPc = "none"
            /\ fpFiles0 = <<>>
            /\ fpHtml0 = <<>>
            /\ path_mapping = <<>>
    /\ IF "sitemap" \in own THEN TRUE
       ELSE /\ base_url = <<>>
            /\ html_files = <<>>
            /\ smPc = "none"
            /\ urls = <<>>
    /\ IF "store" \in own THEN TRUE
       ELSE /\ heap = <<>>
            /\ store_data = 0
            /\ wrapper = [key |-> "", data |-> 0, at |-> 0]
            /\ opLog = <<>>
    /\ IF "tidy" \in own THEN TRUE
       ELSE /\ tidy_data = <<>>
            /\ tidyLog = <<>>
    /\ IF "regen" \in own THEN TRUE
       ELSE /\ rgSrc = <<>>
            /\ rgOut = <<>>
            /\ rgMem = <<>>
            /\ rgDisk = <<>>
            /\ hook = "none"
            /\ rgLog = <<>>
    /\ IF "change" \in own THEN TRUE
       ELSE /\ chgPath = <<>>
            /\ chgMode = "none"
            /\ chgDone = "none"
    /\ IF "ignore" \in own THEN TRUE
       ELSE /\ evPath = <<>>
            /\ evKind = "none"
            /\ evRecent = FALSE
            /\ evCalled = "none"
    /\ IF "render" \in own THEN TRUE
       ELSE /\ sys_path = <<>>
            /\ rpPc = <<>>
            /\ rpAbsent = <<>>
            /\ paths_to_remove = <<>>
    /\ IF "assets" \in own THEN TRUE
       ELSE /\ asSrc = <<>>
            /\ asBuild = <<>>
            /\ asPages = FALSE
            /\ asDynamic = FALSE
            /\ asStale = FALSE
            /\ asLast = [op |-> "none", ended |-> "none", ret |-> FALSE]
    /\ IF "rebuild" \in own THEN TRUE
       ELSE /\ rbSrc = <<>>
            /\ rbFlags = [clean |-> FALSE, force |-> FALSE,
                          fingerprint |-> FALSE, islands |-> FALSE]
            /\ rbAssets = {}
            /\ rbHtml = <<>>
            /\ rbCached = FALSE
            /\ rbRuns = 0
            /\ rbPrev = [assets |-> {}, html |-> <<>>]
    /\ IF "served" \in own THEN TRUE
       ELSE /\ svConfig = ""
            /\ svSource = 0
            /\ svGenerator = ""
            /\ svServer = ""
            /\ svDisk = <<>>
            /\ svCache = [config |-> "", page |-> 0]
            /\ svEdits = 0
            /\ svReply = [dir |-> "", v |-> 0]

\* A project that has never been built: pages 1..n exist, there is one
\* component and no data directory.
InitProject(maxPages) ==
    /\ \E n \in 0..maxPages :
          pageSrc = [p \in Pages |-> IF p <= n THEN 1 ELSE Absent]
    /\ dyn \in BOOLEAN
    /\ compDir = TRUE
    /\ comps = [c \in CompFiles |-> 1]
    /\ dataDir = FALSE
    /\ datas = [d \in DataFiles |-> Absent]
    /\ cfg \in {Absent, 1}
    /\ assets = TRUE
    /\ disk = NoCacheFile
    /\ InitRun
    /\ InitHist
    /\ IdleHttp
    /\ IdleTools({})
    /\ IdleWatch
    /\ IdleServe

GenerateStep ==
    \/ NewGenerator
    \/ \E f \in BOOLEAN : GenNoPages(f)
    \/ \E f \in BOOLEAN : GenUpToDate(f)
    \/ \E f, par \in BOOLEAN : GenSelect(f, par)
    \/ SeqRenderOk
    \/ SeqUpdate
    \/ SeqRenderFail
    \/ SeqWriteFail
    \/ SeqDone
    \/ GenDynamic
    \/ GenSave
    \/ GenFinish
    \/ Crash

ParallelStep ==
    \/ \E p \in Pages : ParWorkerOk(p)
    \/ \E p \in Pages : ParWorkerFail(p)
    \/ ParCollect
    \/ ParDone

EditStep ==
    \/ \E p \in Pages, v \in Vers : EditPage(p, v)
    \/ \E c \in CompFiles, v \in Vers \cup {Absent} : EditComponent(c, v)
    \/ \E v \in Vers \cup {Absent} : EditConfig(v)

(***************************************************************************)
(* SpecGen: up to MaxRuns runs of generate() on a project of up to         *)
(* NumPages pages, sequential or parallel, with page failures and the      *)
(* process stopping at any point.                                          *)
(***************************************************************************)
InitGen ==
    /\ InitProject(NumPages)
    /\ runsLeft = MaxRuns /\ editsLeft = 0 /\ faultsLeft = MaxFaults

NextGen == GenerateStep \/ ParallelStep

SpecGen == InitGen /\ [][NextGen]_vars

(***************************************************************************)
(* SpecBuilds: up to MaxBuilds successive builds of a small project, with  *)
(* the author editing sources between builds.                              *)
(***************************************************************************)
InitBuilds ==
    /\ InitProject(SmallPages)
    /\ runsLeft = MaxBuilds /\ editsLeft = MaxEdits /\ faultsLeft = MaxFaults

NextBuilds == GenerateStep \/ EditStep

SpecBuilds == InitBuilds /\ [][NextBuilds]_vars

(***************************************************************************)
(* SpecCache: get_changed_pages applied to any cache file and any project  *)
(* of up to SmallPages pages.                                              *)
(***************************************************************************)
CacheTables(keys) == [keys -> {NoEntry} \cup {Hash(v) : v \in Vers}]

InitCache ==
    /\ pageSrc \in [Pages -> {Absent} \cup Vers]
    /\ \A p \in Pages : p > SmallPages => pageSrc[p] = Absent
    /\ dyn = FALSE
    /\ compDir \in BOOLEAN
    /\ comps \in [CompFiles -> IF compDir THEN {Absent} \cup Vers ELSE {Absent}]
    /\ dataDir \in BOOLEAN
    /\ datas \in [DataFiles -> IF dataDir THEN {Absent} \cup Vers ELSE {Absent}]
    /\ cfg = Absent
    /\ assets = TRUE
    /\ \E pg \in CacheTables(Pages), cc \in CacheTables(CompFiles),
          dd \in CacheTables(DataFiles) :
          /\ \A p \in Pages : p > SmallPages => pg[p] = NoEntry
          /\ disk = [file |-> "valid",
                     content |-> [pages |-> pg, components |-> cc,
                                  data |-> dd, config_hash |-> None]]
    /\ genPc = "ready"
    /\ mem = LoadCache(disk)
    /\ forceArg = FALSE /\ force = FALSE
    /\ toBuild = <<>> /\ pos = 1
    /\ st = [p \in Pages |-> "none"] /\ doneQ = <<>>
    /\ failed = <<>> /\ successCount = 0
    /\ ret = "none" /\ report = "none"
    /\ InitHist
    /\ runsLeft = 0 /\ editsLeft = 0 /\ faultsLeft = 0
    /\ IdleHttp
    /\ IdleTools({})
    /\ IdleWatch
    /\ IdleServe

\* One call of BuildCache.get_changed_pages(static_pages, ...).
CallChangedPages ==
    /\ genPc = "ready"
    /\ toBuild' = SortedSeq(ChangedPages(mem, StaticPages))
    /\ mem' = AfterChangedPages(mem)
    /\ genPc' = "called"
    /\ UNCHANGED <<srcVars, disk, forceArg, force, pos, st, doneQ, failed,
                   successCount, ret, report, histVars>>
    /\ UNCHANGED otherVars

NextCache == CallChangedPages

SpecCache == InitCache /\ [][NextCache]_vars

(***************************************************************************)
(* Claims about the build cache and generate().                            *)
(***************************************************************************)

\* C1: a project built twice in succession (fresh Generator each time,
\* force not requested) with no source change in between renders no page
\* on the second run and reports "up to date".  Stated for the case most
\* favourable to the claim: the first run returned true with no failed
\* page, and the project has no dynamic route.
C1_SecondBuildUpToDate ==
    (second /\ ~forceArg /\ ~dyn)
        => /\ toBuild = <<>> /\ attempted = {}
           /\ genPc = "returned" => report = "up to date"

\* The static pages the current run left out of its rebuild set.
SkippedPages ==
    IF genPc \in Running THEN StaticPages \ Range(toBuild)
    ELSE IF genPc = "returned" /\ report = "up to date" /\ ~edited
         THEN StaticPages
    ELSE {}

\* C2: a static page is left out of the rebuild set only if none of its
\* inputs (its source, a component, a data file, the configuration) changed
\* since it was last rendered and written successfully, and a page whose
\* most recent render attempt failed is selected again.
C2_SkipOnlyWhenFresh ==
    \A p \in SkippedPages : ~stale[p] /\ ~lastFailed[p]

\* C6: when rendering or writing one static page fails, the failure is
\* recorded in failed_pages, every page of the rebuild set is still
\* processed, and generate() returns true, in the sequential and in the
\* parallel path alike.
C6_FailureDoesNotAbort ==
    (genPc \in {"returned", "raised"} /\ attempted \ written # {})
        => /\ ret = "true"
           /\ attempted = Range(toBuild)
           /\ attempted \ written \subseteq Range(failed)

\* C7: update_page_hash is called for a page only after that page's HTML
\* was written in the same run; cache.save() is called only after every
\* page of the rebuild set was processed; and at every point where the run
\* may stop, a page entry of the cache file that the run changed belongs
\* to a page the run has written.
C7_CacheAfterWrite ==
    /\ updated \subseteq written
    /\ (saved /\ genPc \in Running) => attempted = Range(toBuild)
    /\ \A p \in Pages :
          LoadCache(disk).pages[p] # LoadCache(disk0).pages[p] => p \in updated

\* A run that saved the cache with one page built and another one failed:
\* the failed page has no entry in the cache file.
C7_Witness ==
    /\ saved /\ updated # {}
    /\ \E p \in StaticPages :
          p \notin written /\ LoadCache(disk).pages[p] = NoEntry

\* C8: get_changed_pages returns exactly the pages whose hash differs from
\* the cached one or that have no cache entry, or every page when a
\* component or data file was added, removed or changed relative to the
\* cached hashes.
FilesDiffer(cached, files) ==
    \E f \in DOMAIN files : CurrentHashes(files)[f] # cached[f]

C8_ExactlyChangedPages ==
    genPc = "called" =>
        Range(toBuild) =
            {p \in StaticPages :
                \/ Hash(pageSrc[p]) # disk.content.pages[p]
                \/ disk.content.pages[p] = NoEntry
                \/ FilesDiffer(disk.content.components, comps)
                \/ FilesDiffer(disk.content.data, datas)}

(***************************************************************************)
(* core/server.py: serving files.  A request path is a string, modelled as *)
(* a sequence of tokens; a file name is the sequence of tokens between two *)
(* slashes.  No token is a prefix of another, so two token sequences are   *)
(* the same string exactly when they are equal, and the only occurrences   *)
(* of the substring ".html" are the ".html" tokens.                        *)
(***************************************************************************)
MaxPathLen == 5

Tokens == {"/", "..", ".html", "x"}
RequestPaths == UNION {[1..n -> Tokens] : n \in 0..MaxPathLen}

DotDot == <<"..">>
IndexHtml == <<"index", ".html">>

\* The file system: locations are sequences of names from the root.  The
\* project lives in /site, its build directory is /site/build.
BuildDir == << <<"site">>, <<"build">> >>
Dirs == {<<>>, << <<"site">> >>, BuildDir}
Files == {BuildDir \o <<IndexHtml>>,
          BuildDir \o << <<"x">> >>,
          << <<"site">>, <<"x">> >>,
          << <<"x">> >>}
Missing == << <<"missing">> >>

\* pathlib: the parts of a path string; empty parts are dropped.
RECURSIVE SplitFrom(_, _, _)
SplitFrom(path, i, cur) ==
    IF i > Len(path)
    THEN IF cur = <<>> THEN <<>> ELSE <<cur>>
    ELSE IF path[i] = "/"
         THEN (IF cur = <<>> THEN <<>> ELSE <<cur>>) \o SplitFrom(path, i + 1, <<>>)
         ELSE SplitFrom(path, i + 1, Append(cur, path[i]))

Parts(path) == SplitFrom(path, 1, <<>>)

IsAbsolute(path) == path # <<>> /\ path[1] = "/"

\* build_dir / path: an absolute right operand replaces the left one.
JoinPath(base, path) == IF IsAbsolute(path) THEN Parts(path) ELSE base \o Parts(path)

Parent(loc) == IF loc = <<>> THEN <<>> ELSE SubSeq(loc, 1, Len(loc) - 1)

\* Path.resolve() where no symbolic link is involved: ".." is folded
\* lexically, whether or not the components exist.
RECURSIVE Normalize(_, _)
Normalize(segs, acc) ==
    IF segs = <<>> THEN acc
    ELSE IF Head(segs) = DotDot
         THEN Normalize(Tail(segs), Parent(acc))
         ELSE Normalize(Tail(segs), Append(acc, Head(segs)))

Resolve(segs) == Normalize(segs, <<>>)

IsRelativeTo(loc, dir) ==
    Len(loc) >= Len(dir) /\ SubSeq(loc, 1, Len(dir)) = dir

\* What the operating system finds when it follows a path: every component
\* that is stepped through must be an existing directory.
RECURSIVE Walk(_, _)
Walk(segs, cur) ==
    IF segs = <<>> THEN cur
    ELSE IF cur \notin Dirs THEN Missing
    ELSE IF Head(segs) = DotDot
         THEN Walk(Tail(segs), Parent(cur))
         ELSE Walk(Tail(segs), Append(cur, Head(segs)))

Exists(segs) == Walk(segs, <<>>) \in Dirs \cup Files

\* PurePath.suffix of a file name: the text from the last dot on, unless
\* that dot is the first or the last character of the name.
SuffixOf(name) ==
    IF name = <<>> THEN ""
    ELSE LET n == Len(name)
             dots == {i \in 1..n : name[i] \in {"..", ".html"}}
         IN  IF name[n] = ".." THEN ""
             ELSE IF name[n] = ".html" THEN (IF n > 1 THEN ".html" ELSE "")
             ELSE IF dots = {} THEN ""
             ELSE LET i == CHOOSE j \in dots : \A k \in dots : k <= j
                  IN IF name[i] = ".html" /\ i = 1 THEN "" ELSE "other"

Suffix(segs) == IF segs = <<>> THEN "" ELSE SuffixOf(segs[Len(segs)])

\* str.replace(".html", "").
RemoveHtml(path) == SelectSeq(path, LAMBDA t : t # ".html")

Response(code, loc) == [status |-> code, file |-> loc]

\* aiofiles.open(file_path, "rb") and read: a directory cannot be read.
ReadFile(segs) ==
    IF Walk(segs, <<>>) \in Files
    THEN Response(200, Walk(segs, <<>>))
    ELSE Response(500, Missing)

\* LiveReloadServer.serve_file.
ServeFile(path) ==
    LET file_path == JoinPath(BuildDir, path)
        alt_path == JoinPath(BuildDir, RemoveHtml(path))
    IN  IF ~IsRelativeTo(Resolve(file_path), Resolve(BuildDir))
        THEN Response(403, Missing)
        ELSE IF ~Exists(file_path)
        THEN IF Suffix(file_path) = ".html"
             THEN IF Exists(alt_path) THEN ReadFile(alt_path)
                  ELSE Response(404, Missing)
             ELSE Response(404, Missing)
        ELSE ReadFile(file_path)

\* LiveReloadServer.handle_index: GET /.
HandleIndex ==
    /\ resp.status = 0
    /\ reqPath' = <<>>
    /\ resp' = ServeFile(IndexHtml)
    /\ UNCHANGED <<srcVars, disk, runVars, histVars, watchVars, serveVars>>
    /\ UNCHANGED toolVars

\* LiveReloadServer.handle_static: GET /{path}.
HandleStatic(path) ==
    /\ resp.status = 0
    /\ reqPath' = path
    /\ resp' = IF Suffix(Parts(path)) = ""
               THEN ServeFile(IF path # <<>> THEN path \o <<".html">> ELSE IndexHtml)
               ELSE ServeFile(path)
    /\ UNCHANGED <<srcVars, disk, runVars, histVars, watchVars, serveVars>>
    /\ UNCHANGED toolVars

\* The response goes out; the server waits for the next request.
ResponseSent ==
    /\ resp.status # 0
    /\ reqPath' = <<>>
    /\ resp' = Response(0, <<>>)
    /\ UNCHANGED <<srcVars, disk, runVars, histVars, watchVars, serveVars>>
    /\ UNCHANGED toolVars

(***************************************************************************)
(* SpecHttp: the server answers requests for any path of up to MaxPathLen  *)
(* tokens.                                                                 *)
(***************************************************************************)
InitHttp ==
    /\ pageSrc = [p \in Pages |-> Absent]
    /\ dyn = FALSE
    /\ compDir = FALSE
    /\ comps = [c \in CompFiles |-> Absent]
    /\ dataDir = FALSE
    /\ datas = [d \in DataFiles |-> Absent]
    /\ cfg = Absent
    /\ assets = FALSE
    /\ disk = NoCacheFile
    /\ InitRun
    /\ InitHist
    /\ runsLeft = 0 /\ editsLeft = 0 /\ faultsLeft = 0
    /\ IdleHttp
    /\ IdleTools({})
    /\ IdleWatch
    /\ IdleServe

NextHttp ==
    \/ HandleIndex
    \/ \E path \in RequestPaths : HandleStatic(path)
    \/ ResponseSent

SpecHttp == InitHttp /\ [][NextHttp]_vars

\* C3: whatever the request path, the server returns the contents of a file
\* only if that file is located inside the build directory; a request that
\* would read a path outside it is answered 403, also on the retry without
\* the .html extension.
C3_OnlyBuildDirServed ==
    resp.status = 200 => IsRelativeTo(resp.file, BuildDir)

(***************************************************************************)
(* core/watcher.py: NitroFileHandler.  Time is counted in ticks of 0.1 s.  *)
(***************************************************************************)
MaxTime == 12
MaxCallbacks == 4

DebounceTicks == 5

WatchedFiles == {"a.py", "b.py", "a.pyc"}

\* _should_ignore: the path contains one of the ignore patterns.
ShouldIgnore(f) == f \in {"a.pyc"}

\* self.last_modified.get(src_path, 0)
LastTime(f) == IF last_modified[f] = NoEntry THEN 0 ELSE last_modified[f]

C9_MutantDebounced(current_time, last_time) ==
    last_time - current_time < DebounceTicks

\* current_time - last_time < self.debounce_seconds
Debounced(current_time, last_time) ==
    current_time - last_time < DebounceTicks

\* Time passes.
Tick ==
    /\ now < 2 * DebounceTicks + MaxTime
    /\ now' = now + 1
    /\ UNCHANGED <<srcVars, disk, runVars, histVars, httpVars, serveVars, last_modified,
                   callbacks, prevEvent, lastInvoked, evt>>
    /\ UNCHANGED toolVars

\* on_modified for an ignored path: nothing happens.
OnModifiedIgnored(f) ==
    /\ ShouldIgnore(f)
    /\ evt' = [kind |-> "ignored", file |-> f, time |-> now, prev |-> NoEntry,
               lastInv |-> NoEntry, invoked |-> FALSE]
    /\ UNCHANGED <<srcVars, disk, runVars, histVars, httpVars, serveVars, now,
                   last_modified, callbacks, prevEvent, lastInvoked>>
    /\ UNCHANGED toolVars

\* on_modified, the event falls inside the debounce window: return.
OnModifiedDebounced(f) ==
    /\ ~ShouldIgnore(f)
    /\ Debounced(now, LastTime(f))
    /\ prevEvent' = [prevEvent EXCEPT ![f] = now]
    /\ evt' = [kind |-> "modified", file |-> f, time |-> now,
               prev |-> prevEvent[f], lastInv |-> lastInvoked[f],
               invoked |-> FALSE]
    /\ UNCHANGED <<srcVars, disk, runVars, histVars, httpVars, serveVars, now,
                   last_modified, callbacks, lastInvoked>>
    /\ UNCHANGED toolVars

\* on_modified, outside the window: the time is recorded and the callback
\* is invoked.
OnModifiedCallback(f) ==
    /\ ~ShouldIgnore(f)
    /\ ~Debounced(now, LastTime(f))
    /\ callbacks < MaxCallbacks
    /\ last_modified' = [last_modified EXCEPT ![f] = now]
    /\ callbacks' = callbacks + 1
    /\ prevEvent' = [prevEvent EXCEPT ![f] = now]
    /\ lastInvoked' = [lastInvoked EXCEPT ![f] = now]
    /\ evt' = [kind |-> "modified", file |-> f, time |-> now,
               prev |-> prevEvent[f], lastInv |-> lastInvoked[f],
               invoked |-> TRUE]
    /\ UNCHANGED <<srcVars, disk, runVars, histVars, httpVars, serveVars, now>>
    /\ UNCHANGED toolVars

\* on_created: the callback is invoked at once; last_modified is not used.
OnCreated(f) ==
    /\ ~ShouldIgnore(f)
    /\ callbacks < MaxCallbacks
    /\ callbacks' = callbacks + 1
    /\ evt' = [kind |-> "created", file |-> f, time |-> now, prev |-> NoEntry,
               lastInv |-> NoEntry, invoked |-> TRUE]
    /\ UNCHANGED <<srcVars, disk, runVars, histVars, httpVars, serveVars, now,
                   last_modified, prevEvent, lastInvoked>>
    /\ UNCHANGED toolVars

(***************************************************************************)
(* SpecWatch: file events reach one NitroFileHandler at arbitrary times.   *)
(* The clock starts later than the debounce delay after the epoch.         *)
(***************************************************************************)
InitWatch ==
    /\ pageSrc = [p \in Pages |-> Absent]
    /\ dyn = FALSE
    /\ compDir = FALSE
    /\ comps = [c \in CompFiles |-> Absent]
    /\ dataDir = FALSE
    /\ datas = [d \in DataFiles |-> Absent]
    /\ cfg = Absent
    /\ assets = FALSE
    /\ disk = NoCacheFile
    /\ InitRun
    /\ InitHist
    /\ runsLeft = 0 /\ editsLeft = 0 /\ faultsLeft = 0
    /\ IdleHttp
    /\ IdleTools({})
    /\ IdleServe
    /\ now = 2 * DebounceTicks
    /\ last_modified = [f \in WatchedFiles |-> NoEntry]
    /\ callbacks = 0
    /\ prevEvent = [f \in WatchedFiles |-> NoEntry]
    /\ lastInvoked = [f \in WatchedFiles |-> NoEntry]
    /\ evt = [kind |-> "none"]

NextWatch ==
    \/ Tick
    \/ \E f \in WatchedFiles : OnModifiedIgnored(f)
    \/ \E f \in WatchedFiles : OnModifiedDebounced(f)
    \/ \E f \in WatchedFiles : OnModifiedCallback(f)
    \/ \E f \in WatchedFiles : OnCreated(f)

SpecWatch == InitWatch /\ [][NextWatch]_vars

\* C9: a modification event on a non-ignored file that comes less than
\* 0.5 s after the previous modification event on that file does not invoke
\* the callback, and one that comes more than 0.5 s after it does.
C9_DebounceOnPreviousEvent ==
    (evt.kind = "modified" /\ evt.prev # NoEntry)
        => /\ evt.time - evt.prev < DebounceTicks => ~evt.invoked
           /\ evt.time - evt.prev > DebounceTicks => evt.invoked

\* C9 as amended: a modification event on a non-ignored file does not
\* invoke the callback when it comes less than 0.5 s after the last
\* modification event on that file that did invoke it; it invokes the
\* callback when it is the first one on that file or comes more than 0.5 s
\* after the previous modification event on that file.
C9_DebounceOnLastInvoked ==
    evt.kind = "modified"
        => /\ (evt.lastInv # NoEntry /\ evt.time - evt.lastInv < DebounceTicks)
                  => ~evt.invoked
           /\ (evt.prev # NoEntry /\ evt.time - evt.prev > DebounceTicks)
                  => evt.invoked
           /\ evt.prev = NoEntry => evt.invoked

\* An event that invokes the callback although the previous event on the
\* file, a suppressed one, is less than 0.5 s old; and, before it, that
\* suppressed event.
C9_Witness ==
    /\ evt.kind = "modified" /\ evt.invoked
    /\ evt.prev # NoEntry /\ evt.time - evt.prev < DebounceTicks
    /\ evt.lastInv # NoEntry /\ evt.prev # evt.lastInv

(***************************************************************************)
(* commands/serve.py and core/server.py: the development server.  The      *)
(* watcher thread schedules one on_file_change task per callback; the      *)
(* event loop runs the tasks, one step at a time, in the order they became *)
(* runnable.  generate() is synchronous: while it runs the loop runs       *)
(* nothing else, but the watcher thread and the clients go on.             *)
(***************************************************************************)
MaxEvents == 3
FewEvents == 2
MaxClients == 2
FewClients == 1
ServePages == 1

Handlers == 1..MaxEvents
Clients == 1..MaxClients

ChangedPaths == {"src/pages/index.py", "src/pages/notes.txt",
                 "src/components/header.py", "src/styles/main.css",
                 "nitro.config.py", "src/data/site.json"}

\* on_file_change, lines 132-153: the branch taken for a path.
Branch(path) ==
    CASE path = "src/pages/index.py" -> "page"
      [] path = "src/pages/notes.txt" -> "page_skip"
      [] path = "src/components/header.py" -> "components"
      [] path = "src/styles/main.css" -> "assets"
      [] path = "nitro.config.py" -> "config"
      [] OTHER -> "site"

C5_MutantShouldNotify(branch, result) == TRUE

\* should_notify at line 155.
ShouldNotify(branch, result) == branch = "assets" \/ result = "true"

C4_MutantCanAcquire(lk, wts) == ~lk

\* asyncio.Lock.acquire: the lock is taken at once only when it is free and
\* nobody waits for it.
CanAcquire(lk, wts) == ~lk /\ wts = <<>>

C10_MutantPruneDead(ws, dead_sockets) == ws

\* self.websockets -= dead_sockets
PruneDead(ws, dead_sockets) == ws \ dead_sockets

\* The event loop is free to run a task step or a connection handler.
LoopIdle ==
    /\ srvPc = "serving"
    /\ \A h \in DOMAIN hPc : hPc[h] # "acting"

InSection == {h \in DOMAIN hPc : hPc[h] \in {"acting", "sending"}}

\* serve_async, lines 84-98: Generator() and, the build directory being
\* empty, generate().
ServeStart ==
    /\ srvPc = "init"
    /\ srvPc' = "generating"
    /\ mem' = LoadCache(disk)
    /\ BeginRun
    /\ UNCHANGED <<srcVars, disk, stale, lastFailed, lastClean, runsLeft,
                   editsLeft, faultsLeft>>
    /\ UNCHANGED <<httpVars, watchVars, events, actRes, lockVars, wsVars>>
    /\ UNCHANGED toolVars

\* Lines 100-163: the site was generated; the server and the watcher start.
ServeUp ==
    /\ srvPc = "generating"
    /\ genPc = "returned" /\ ret = "true"
    /\ srvPc' = "serving"
    /\ UNCHANGED <<srcVars, disk, runVars, histVars, httpVars, watchVars,
                   events, actRes, lockVars, wsVars>>
    /\ UNCHANGED toolVars

\* Lines 90-97: generate() returned false, or raised: serve ends.
ServeAbort ==
    /\ srvPc = "generating"
    /\ \/ genPc = "returned" /\ ret # "true"
       \/ genPc = "raised"
    /\ srvPc' = "exited"
    /\ UNCHANGED <<srcVars, disk, runVars, histVars, httpVars, watchVars,
                   events, actRes, lockVars, wsVars>>
    /\ UNCHANGED toolVars

\* The watcher thread: a file changed, on_file_change_sync schedules a task
\* on the loop (lines 159-162).  v is the file's new content.
FileChange(path, v) ==
    /\ srvPc = "serving"
    /\ Len(events) + 1 \in DOMAIN hPc
    /\ events' = Append(events, path)
    /\ ready' = Append(ready, Len(events) + 1)
    /\ hPc' = [hPc EXCEPT ![Len(events) + 1] = "scheduled"]
    /\ edited' = TRUE
    /\ CASE Branch(path) = "page" ->
              /\ pageSrc[1] # Absent
              /\ pageSrc' = [pageSrc EXCEPT ![1] = v]
              /\ stale' = stale
              /\ UNCHANGED <<comps, cfg>>
         [] Branch(path) = "components" ->
              /\ comps' = [comps EXCEPT !["header"] = v]
              /\ stale' = stale
              /\ UNCHANGED <<pageSrc, cfg>>
         [] Branch(path) = "config" ->
              /\ cfg # Absent
              /\ cfg' = v
              /\ stale' = stale
              /\ UNCHANGED <<pageSrc, comps>>
         [] OTHER ->
              /\ v = 1
              /\ UNCHANGED <<pageSrc, comps, cfg, stale>>
    /\ UNCHANGED <<dyn, compDir, dataDir, datas, assets, disk, runVars,
                   written, attempted, updated, saved, wrote, disk0,
                   lastFailed, lastClean, second, runsLeft, editsLeft,
                   faultsLeft>>
    /\ UNCHANGED <<httpVars, watchVars, srvPc, actRes, locked, waiters,
                   entered, wsVars>>
    /\ UNCHANGED toolVars

\* "async with regeneration_lock" finds the lock taken: the task joins the
\* waiters.
TaskBlocked ==
    /\ LoopIdle /\ ready # <<>>
    /\ hPc[Head(ready)] = "scheduled"
    /\ ~CanAcquire(locked, waiters)
    /\ ready' = Tail(ready)
    /\ waiters' = Append(waiters, Head(ready))
    /\ hPc' = [hPc EXCEPT ![Head(ready)] = "waiting"]
    /\ UNCHANGED <<srcVars, disk, runVars, histVars, httpVars, watchVars,
                   srvPc, events, actRes, locked, entered, wsVars>>
    /\ UNCHANGED toolVars

\* The task at the head of the loop's queue takes the lock: at once, or
\* after release() woke it up.
Entering(h) ==
    /\ LoopIdle /\ ready # <<>> /\ h = Head(ready)
    /\ \/ hPc[h] = "scheduled" /\ CanAcquire(locked, waiters)
       \/ hPc[h] = "woken"

WaitersAfter(h) == SelectSeq(waiters, LAMBDA w : w # h)

\* The lock is released at the end of "async with": the first waiter, if
\* any, is woken up and becomes runnable.
Release(h, rdy, wts) ==
    /\ locked' = FALSE
    /\ waiters' = wts
    /\ IF wts # <<>> /\ hPc[Head(wts)] = "waiting"
       THEN /\ ready' = Append(rdy, Head(wts))
            /\ hPc' = [hPc EXCEPT ![h] = "done", ![Head(wts)] = "woken"]
       ELSE /\ ready' = rdy
            /\ hPc' = [hPc EXCEPT ![h] = "done"]

\* Lines 155-157 and notify_reload up to its first await: with no client
\* notify_reload returns at once and the lock is released.
Conclude(h, notify, rdy, wts) ==
    IF notify /\ websockets # {}
    THEN /\ hPc' = [hPc EXCEPT ![h] = "sending"]
         /\ locked' = TRUE
         /\ waiters' = wts
         /\ ready' = rdy
         /\ snapshot' = SortedSeq(websockets)
         /\ idx' = 1
         /\ dead' = {}
         /\ sentTo' = {}
         /\ targets' = websockets
         /\ bcast' = "running"
         /\ UNCHANGED <<websockets, conn>>
    ELSE /\ Release(h, rdy, wts)
         /\ UNCHANGED wsVars

\* A path under pages with suffix .py: regenerate_page (generator.py
\* 449-477) renders and writes the page, returns false when the render
\* fails, or raises when the write fails.
HandlePage(h, result) ==
    /\ Entering(h)
    /\ Branch(events[h]) = "page"
    /\ entered' = Append(entered, h)
    /\ IF result = "true" THEN faultsLeft' = faultsLeft
       ELSE faultsLeft > 0 /\ faultsLeft' = faultsLeft - 1
    /\ actRes' = result
    /\ wrote' = (result = "true")
    /\ Conclude(h, result # "raised" /\ ShouldNotify("page", result),
                Tail(ready), WaitersAfter(h))
    /\ UNCHANGED <<srcVars, disk, runVars, written, attempted, updated, saved,
                   disk0, stale, lastFailed, lastClean, edited, second,
                   runsLeft, editsLeft>>
    /\ UNCHANGED <<httpVars, watchVars, srvPc, events>>
    /\ UNCHANGED toolVars

\* A path under pages that is no page module: nothing is done.
HandlePageSkip(h) ==
    /\ Entering(h)
    /\ Branch(events[h]) = "page_skip"
    /\ entered' = Append(entered, h)
    /\ actRes' = "none"
    /\ wrote' = FALSE
    /\ Conclude(h, FALSE, Tail(ready), WaitersAfter(h))
    /\ UNCHANGED <<srcVars, disk, runVars, written, attempted, updated, saved,
                   disk0, stale, lastFailed, lastClean, edited, second,
                   runsLeft, editsLeft, faultsLeft>>
    /\ UNCHANGED <<httpVars, watchVars, srvPc, events>>
    /\ UNCHANGED toolVars

\* A path under styles or public: _copy_assets, then notify.
HandleAssets(h) ==
    /\ Entering(h)
    /\ Branch(events[h]) = "assets"
    /\ entered' = Append(entered, h)
    /\ actRes' = "none"
    /\ wrote' = assets
    /\ Conclude(h, ShouldNotify("assets", "none"), Tail(ready), WaitersAfter(h))
    /\ UNCHANGED <<srcVars, disk, runVars, written, attempted, updated, saved,
                   disk0, stale, lastFailed, lastClean, edited, second,
                   runsLeft, editsLeft, faultsLeft>>
    /\ UNCHANGED <<httpVars, watchVars, srvPc, events>>
    /\ UNCHANGED toolVars

\* A path under components, or any other path: generate() on the current
\* Generator.  For nitro.config.py a new Generator is made first.
HandleGenerate(h) ==
    /\ Entering(h)
    /\ Branch(events[h]) \in {"components", "config", "site"}
    /\ entered' = Append(entered, h)
    /\ actRes' = "running"
    /\ mem' = IF Branch(events[h]) = "config" THEN LoadCache(disk) ELSE mem
    /\ BeginRun
    /\ ready' = Tail(ready)
    /\ waiters' = WaitersAfter(h)
    /\ locked' = TRUE
    /\ hPc' = [hPc EXCEPT ![h] = "acting"]
    /\ UNCHANGED <<srcVars, disk, stale, lastFailed, lastClean, runsLeft,
                   editsLeft, faultsLeft>>
    /\ UNCHANGED <<httpVars, watchVars, srvPc, events, wsVars>>
    /\ UNCHANGED toolVars

\* generate() returned, or raised out of on_file_change.
AfterGenerate(h) ==
    /\ srvPc = "serving"
    /\ h \in DOMAIN hPc /\ hPc[h] = "acting"
    /\ genPc \in {"returned", "raised"}
    /\ actRes' = IF genPc = "raised" THEN "raised" ELSE ret
    /\ Conclude(h, genPc = "returned" /\ ShouldNotify(Branch(events[h]), ret),
                ready, waiters)
    /\ UNCHANGED <<srcVars, disk, runVars, histVars, httpVars, watchVars,
                   srvPc, events, entered>>
    /\ UNCHANGED toolVars

\* notify_reload: await ws.send_str(message) succeeds.
SendOk(h) ==
    /\ LoopIdle
    /\ h \in DOMAIN hPc /\ hPc[h] = "sending"
    /\ idx <= Len(snapshot)
    /\ conn[snapshot[idx]] = "open"
    /\ sentTo' = sentTo \cup {snapshot[idx]}
    /\ idx' = idx + 1
    /\ UNCHANGED <<srcVars, disk, runVars, histVars, httpVars, watchVars,
                   srvPc, events, actRes, lockVars, websockets, conn,
                   snapshot, dead, targets, bcast>>
    /\ UNCHANGED toolVars

\* notify_reload: send_str raises, the socket is put aside.
SendFail(h) ==
    /\ LoopIdle
    /\ h \in DOMAIN hPc /\ hPc[h] = "sending"
    /\ idx <= Len(snapshot)
    /\ conn[snapshot[idx]] # "open"
    /\ dead' = dead \cup {snapshot[idx]}
    /\ idx' = idx + 1
    /\ UNCHANGED <<srcVars, disk, runVars, histVars, httpVars, watchVars,
                   srvPc, events, actRes, lockVars, websockets, conn,
                   snapshot, sentTo, targets, bcast>>
    /\ UNCHANGED toolVars

\* notify_reload after the loop; on_file_change ends and releases the lock.
NotifyEnd(h) ==
    /\ LoopIdle
    /\ h \in DOMAIN hPc /\ hPc[h] = "sending"
    /\ idx > Len(snapshot)
    /\ websockets' = PruneDead(websockets, dead)
    /\ bcast' = "finished"
    /\ snapshot' = <<>> /\ idx' = 1
    /\ Release(h, ready, waiters)
    /\ UNCHANGED <<srcVars, disk, runVars, histVars, httpVars, watchVars,
                   srvPc, events, actRes, entered, conn, dead, sentTo,
                   targets>>
    /\ UNCHANGED toolVars

\* handle_websocket up to self.websockets.add(ws).
WsConnect(c) ==
    /\ LoopIdle
    /\ runner = "up"
    /\ c \in DOMAIN conn /\ conn[c] = "new"
    /\ conn' = [conn EXCEPT ![c] = "open"]
    /\ websockets' = websockets \cup {c}
    /\ UNCHANGED <<srcVars, disk, runVars, histVars, httpVars, watchVars,
                   srvPc, events, actRes, lockVars, snapshot, idx, dead,
                   sentTo, targets, bcast>>
    /\ UNCHANGED toolVars

\* The browser goes away or the connection breaks.
ConnectionLost(c) ==
    /\ c \in DOMAIN conn /\ conn[c] = "open"
    /\ conn' = [conn EXCEPT ![c] = "broken"]
    /\ UNCHANGED <<srcVars, disk, runVars, histVars, httpVars, watchVars,
                   srvPc, events, actRes, lockVars, websockets, snapshot, idx,
                   dead, sentTo, targets, bcast>>
    /\ UNCHANGED toolVars

\* handle_websocket: the message loop ends (the connection broke, the
\* server closed the socket or dropped the connection), finally: discard(ws).
WsDisconnect(c) ==
    /\ LoopIdle
    /\ c \in DOMAIN conn /\ conn[c] \in {"broken", "shut", "dropped"}
    /\ conn' = [conn EXCEPT ![c] = "closed"]
    /\ websockets' = websockets \ {c}
    /\ UNCHANGED <<srcVars, disk, runVars, histVars, httpVars, watchVars,
                   srvPc, events, actRes, lockVars, snapshot, idx, dead,
                   sentTo, targets, bcast>>
    /\ UNCHANGED toolVars

(***************************************************************************)
(* nitro serve on a project of up to ServePages pages, with up to nEvents   *)
(* file changes and up to nClients browsers.  The watcher watches the      *)
(* project root, and so reports nitro.config.py, only when that file       *)
(* exists at start.                                                        *)
(***************************************************************************)
InitServeWith(nEvents, nClients) ==
    /\ \E n \in 0..ServePages :
          pageSrc = [p \in Pages |-> IF p <= n THEN 1 ELSE Absent]
    /\ dyn = FALSE
    /\ compDir = TRUE
    /\ comps = [c \in CompFiles |-> 1]
    /\ dataDir = FALSE
    /\ datas = [d \in DataFiles |-> Absent]
    /\ cfg \in {Absent, 1}
    /\ assets = TRUE
    /\ disk = NoCacheFile
    /\ InitRun
    /\ InitHist
    /\ runsLeft = 0 /\ editsLeft = 0 /\ faultsLeft = MaxFaults
    /\ IdleHttp
    /\ IdleTools({})
    /\ IdleWatch
    /\ srvPc = "init"
    /\ events = <<>>
    /\ ready = <<>>
    /\ hPc = [h \in 1..nEvents |-> "none"]
    /\ locked = FALSE
    /\ waiters = <<>>
    /\ entered = <<>>
    /\ actRes = "none"
    /\ websockets = {}
    /\ conn = [c \in 1..nClients |-> "new"]
    /\ snapshot = <<>>
    /\ idx = 1
    /\ dead = {}
    /\ sentTo = {}
    /\ targets = {}
    /\ bcast = "none"

NextServe ==
    \/ ServeStart
    \/ ServeUp
    \/ ServeAbort
    \/ GenNoPages(FALSE)
    \/ GenUpToDate(FALSE)
    \/ GenSelect(FALSE, TRUE)
    \/ SeqRenderOk
    \/ SeqUpdate
    \/ SeqRenderFail
    \/ SeqWriteFail
    \/ SeqDone
    \/ GenDynamic
    \/ GenSave
    \/ GenFinish
    \/ \E path \in ChangedPaths, v \in Vers : FileChange(path, v)
    \/ TaskBlocked
    \/ \E h \in Handlers, r \in {"true", "false", "raised"} : HandlePage(h, r)
    \/ \E h \in Handlers : HandlePageSkip(h)
    \/ \E h \in Handlers : HandleAssets(h)
    \/ \E h \in Handlers : HandleGenerate(h)
    \/ \E h \in Handlers : AfterGenerate(h)
    \/ \E h \in Handlers : SendOk(h)
    \/ \E h \in Handlers : SendFail(h)
    \/ \E h \in Handlers : NotifyEnd(h)
    \/ \E c \in Clients : WsConnect(c)
    \/ \E c \in Clients : ConnectionLost(c)
    \/ \E c \in Clients : WsDisconnect(c)

\* SpecServe: a burst of up to MaxEvents file changes, FewClients browser.
InitServe == InitServeWith(MaxEvents, FewClients)

SpecServe == InitServe /\ [][NextServe]_vars

\* SpecBroadcast: up to FewEvents file changes, up to MaxClients browsers.
InitBroadcast == InitServeWith(FewEvents, MaxClients)

SpecBroadcast == InitBroadcast /\ [][NextServe]_vars

(***************************************************************************)
(* Claims about serve.                                                     *)
(***************************************************************************)

\* C4: while the server runs, at most one on_file_change task is inside
\* its regenerate-then-notify section; the tasks enter the section in the
\* order their events arrived from the watcher; and no event is dropped or
\* merged: once the loop has nothing left to run, every event that arrived
\* has had its own turn.
C4_OneAtATimeInOrder ==
    /\ Cardinality(InSection) <= 1
    /\ \A i \in 1..Len(entered) : entered[i] = i
    /\ (LoopIdle /\ ready = <<>> /\ InSection = {})
          => /\ Len(entered) = Len(events)
             /\ \A h \in 1..Len(events) : hPc[h] = "done"

\* A burst: one task is suspended inside the section, two more wait.
C4_Witness ==
    /\ InSection # {}
    /\ Len(waiters) = 2

C10_BroadcastReachesAll ==
    /\ bcast = "finished"
          => /\ targets = sentTo \cup dead
             /\ sentTo \cap dead = {}
             /\ websockets \cap dead = {}
    /\ bcast = "running"
          => /\ \E h \in DOMAIN hPc : hPc[h] = "sending"
             /\ Range(snapshot) = targets
             /\ sentTo \cup dead = {snapshot[i] : i \in 1..(idx - 1)}

\* The send to the first client failed and the second client still got the
\* message.
C10_Witness ==
    /\ bcast = "finished"
    /\ 1 \in dead
    /\ 2 \in sentTo


(***************************************************************************)
(* Shutdown of nitro serve (commands/serve.py, the finally block) and      *)
(* LiveReloadServer.stop.  Browsers connect, break and go away while the   *)
(* server runs; every await of stop() lets the event loop run connection   *)
(* handlers.                                                               *)
(***************************************************************************)
ShutdownRest == <<srcVars, disk, runVars, histVars, httpVars, watchVars,
                  srvPc, events, actRes, lockVars, snapshot, idx, dead,
                  sentTo, targets, bcast, loadVars, buildVars, deployVars,
                  dynVars, fpVars, smVars, storeVars, tidyVars, regenVars,
                  chgVars, ignVars, rpVars, assetVars, rebuildVars,
                  servedVars>>

LoadRest == <<coreVars, shutVars, buildVars, deployVars, dynVars, fpVars,
              smVars, storeVars, tidyVars, regenVars, chgVars, ignVars,
              rpVars, assetVars, rebuildVars, servedVars>>

\* The signal handler sets shutdown_event; the wait returns.
Signal ==
    /\ shutPc = "waiting"
    /\ shutPc' = "finally"
    /\ UNCHANGED <<ShutdownRest, websockets, conn, watcher, stopList,
                   closed1001, runner, steps>>

\* finally: if watcher: watcher.stop()
StopWatcher ==
    /\ shutPc = "finally"
    /\ shutPc' = "sleep"
    /\ watcher' = IF watcher = "none" THEN "none" ELSE "stopped"
    /\ steps' = IF watcher = "none" THEN steps ELSE Append(steps, "watcher.stop")
    /\ UNCHANGED <<ShutdownRest, websockets, conn, stopList, closed1001, runner>>

\* await asyncio.sleep(0.1)
GraceDelay ==
    /\ shutPc = "sleep"
    /\ shutPc' = "stop"
    /\ steps' = Append(steps, "sleep")
    /\ UNCHANGED <<ShutdownRest, websockets, conn, watcher, stopList,
                   closed1001, runner>>

\* server.stop() with clients: for ws in list(self.websockets)
StopBegin ==
    /\ shutPc = "stop"
    /\ websockets # {}
    /\ shutPc' = "closing"
    /\ stopList' = websockets
    /\ steps' = Append(steps, "server.stop")
    /\ UNCHANGED <<ShutdownRest, websockets, conn, watcher, closed1001, runner>>

\* One turn of the loop of stop(): a socket that is not closed gets
\* close(code=1001); a failure of close is swallowed.  close() awaits the
\* peer's answer, and the event loop runs connection handlers meanwhile.
StopClose(c) ==
    /\ shutPc = "closing"
    /\ c \in stopList
    /\ stopList' = stopList \ {c}
    /\ conn' = IF conn[c] = "open" THEN [conn EXCEPT ![c] = "shut"] ELSE conn
    /\ closed1001' = IF conn[c] = "open" THEN closed1001 \cup {c} ELSE closed1001
    /\ UNCHANGED <<ShutdownRest, websockets, watcher, shutPc, runner, steps>>

\* After the loop: self.websockets.clear(), then runner.cleanup() closes
\* the listening socket.
StopClear ==
    /\ shutPc = "closing"
    /\ stopList = {}
    /\ websockets' = {}
    /\ runner' = "released"
    /\ shutPc' = "cleanup"
    /\ UNCHANGED <<ShutdownRest, conn, watcher, stopList, closed1001, steps>>

\* server.stop() with an empty client set goes straight to runner.cleanup().
StopNoClients ==
    /\ shutPc = "stop"
    /\ websockets = {}
    /\ runner' = "released"
    /\ shutPc' = "cleanup"
    /\ steps' = Append(steps, "server.stop")
    /\ UNCHANGED <<ShutdownRest, websockets, conn, watcher, stopList, closed1001>>

\* runner.cleanup() shuts the connections that are still there.
RunnerCleanup ==
    /\ shutPc = "cleanup"
    /\ shutPc' = "done"
    /\ conn' = [c \in DOMAIN conn |->
                   IF conn[c] = "open" THEN "dropped" ELSE conn[c]]
    /\ UNCHANGED <<ShutdownRest, websockets, watcher, stopList, closed1001,
                   runner, steps>>

\* SpecShutdown: a running server with up to MaxClients browsers, with or
\* without live reload, is told to stop.
InitShutdown ==
    /\ IdleSite
    /\ IdleHttp
    /\ IdleWatch
    /\ srvPc = "serving"
    /\ events = <<>>
    /\ ready = <<>>
    /\ hPc = <<>>
    /\ locked = FALSE
    /\ waiters = <<>>
    /\ entered = <<>>
    /\ actRes = "none"
    /\ websockets = {}
    /\ conn = [c \in Clients |-> "new"]
    /\ snapshot = <<>>
    /\ idx = 1
    /\ dead = {}
    /\ sentTo = {}
    /\ targets = {}
    /\ bcast = "none"
    /\ IdleTools({"shutdown"})
    /\ watcher \in {"none", "running"}
    /\ shutPc = "waiting"
    /\ stopList = {}
    /\ closed1001 = {}
    /\ runner = "up"
    /\ steps = <<>>

NextShutdown ==
    \/ Signal
    \/ StopWatcher
    \/ GraceDelay
    \/ StopBegin
    \/ \E c \in Clients : StopClose(c)
    \/ StopClear
    \/ StopNoClients
    \/ RunnerCleanup
    \/ \E c \in Clients : WsConnect(c)
    \/ \E c \in Clients : ConnectionLost(c)
    \/ \E c \in Clients : WsDisconnect(c)

SpecShutdown == InitShutdown /\ [][NextShutdown]_vars

\* C11: serve shuts down in the order watcher stop, grace delay, server
\* stop; and when the HTTP listener has been released the client set is
\* empty and no client is left that is still open without having been
\* closed with code 1001.
C11_OrderlyShutdown ==
    /\ \E n \in 0..3 :
          steps = SubSeq(IF watcher = "none"
                         THEN <<"sleep", "server.stop">>
                         ELSE <<"watcher.stop", "sleep", "server.stop">>, 1, n)
    /\ runner = "released" =>
          /\ websockets = {}
          /\ \A c \in DOMAIN conn : conn[c] \notin {"open", "dropped"}


(***************************************************************************)
(* BuildCache over any content of .nitro/cache.json (core/cache.py,        *)
(* _load_cache), followed by the first generate() of the Generator that    *)
(* holds it.  A file is described by what reading it meets: bytes that are *)
(* not text, text that is not JSON, a JSON value that is no object, or an  *)
(* object with or without a version and each of the three tables.          *)
(***************************************************************************)
CACHE_VERSION == 1

CacheTableNames == {"pages", "components", "data"}

CacheFiles ==
    [form : {"missing", "not_utf8", "not_json", "array", "null"},
     version : {None}, tables : {{}}, config_same : {FALSE}]
    \cup
    [form : {"object"},
     version : {None, CACHE_VERSION, CACHE_VERSION + 1},
     tables : SUBSET CacheTableNames,
     config_same : BOOLEAN]

\* _load_cache, by the statement that decides: open() of a missing file is
\* not tried; json.load raises UnicodeDecodeError on bytes that are not
\* text and JSONDecodeError on text that is not JSON; data.get raises
\* AttributeError on a list or on None; only JSONDecodeError and IOError
\* are caught.
LoadCacheFile(f) ==
    CASE f.form = "missing" -> [err |-> "none", cache |-> "empty"]
      [] f.form = "not_utf8" -> [err |-> "UnicodeDecodeError", cache |-> "unset"]
      [] f.form = "not_json" -> [err |-> "none", cache |-> "empty"]
      [] f.form \in {"array", "null"} -> [err |-> "AttributeError", cache |-> "unset"]
      [] f.form = "object" ->
            IF f.version # CACHE_VERSION
            THEN [err |-> "none", cache |-> "empty"]
            ELSE [err |-> "none", cache |-> "data"]

\* Generator.__init__: self.cache = BuildCache(self.project_root)
Construct ==
    /\ loadPc = "start"
    /\ loadErr' = LoadCacheFile(cacheFile).err
    /\ cacheObj' = LoadCacheFile(cacheFile).cache
    /\ loadPc' = IF LoadCacheFile(cacheFile).err = "none"
                 THEN "constructed" ELSE "raised"
    /\ UNCHANGED <<LoadRest, cacheFile, fullRebuild>>

\* generate() on the cache just loaded, every page rendering well: the
\* first subscript of self._cache by a table the parsed file lacks raises
\* KeyError.  The config check uses .get and an assignment; without pages
\* generate returns early; get_changed_pages subscripts "components" and
\* "data" when the directory exists and "pages" once per static page; a
\* forced build subscripts "pages" in update_page_hash.
FirstGenerate ==
    /\ loadPc = "constructed"
    /\ LET tables == IF cacheObj = "data" THEN cacheFile.tables
                     ELSE CacheTableNames
           forced == cfg # Absent /\ ~(cacheObj = "data" /\ cacheFile.config_same)
           used == IF StaticPages = {} /\ ~dyn THEN {}
                   ELSE IF forced
                        THEN IF StaticPages # {} THEN {"pages"} ELSE {}
                        ELSE (IF compDir THEN {"components"} ELSE {})
                             \cup (IF dataDir THEN {"data"} ELSE {})
                             \cup (IF StaticPages # {} THEN {"pages"} ELSE {})
       IN /\ loadErr' = IF used \subseteq tables THEN "none" ELSE "KeyError"
          /\ loadPc' = IF used \subseteq tables THEN "generated" ELSE "raised"
          /\ IF ~(used \subseteq tables) \/ (StaticPages = {} /\ ~dyn)
             THEN fullRebuild' = FALSE
             ELSE IF forced \/ cacheObj = "empty"
                  THEN fullRebuild' =
                         (forced \/ ChangedPages(EmptyCache, StaticPages) = StaticPages)
                  ELSE fullRebuild' \in BOOLEAN
    /\ UNCHANGED <<LoadRest, cacheFile, cacheObj>>

\* SpecLoad: any cache file, in a project of up to SmallPages pages with or
\* without components, data and a config file.
InitLoad ==
    /\ \E n \in 0..SmallPages :
          pageSrc = [p \in Pages |-> IF p <= n THEN 1 ELSE Absent]
    /\ dyn = FALSE
    /\ compDir \in BOOLEAN
    /\ comps = [c \in CompFiles |-> IF compDir THEN 1 ELSE Absent]
    /\ dataDir \in BOOLEAN
    /\ datas = [d \in DataFiles |-> IF dataDir THEN 1 ELSE Absent]
    /\ cfg \in {Absent, 1}
    /\ assets = FALSE
    /\ disk = NoCacheFile
    /\ InitRun
    /\ InitHist
    /\ runsLeft = 0 /\ editsLeft = 0 /\ faultsLeft = 0
    /\ IdleHttp
    /\ IdleWatch
    /\ IdleServe
    /\ IdleTools({"load"})
    /\ cacheFile \in CacheFiles
    /\ loadPc = "start"
    /\ loadErr = "none"
    /\ cacheObj = "unset"
    /\ fullRebuild = FALSE

NextLoad == Construct \/ FirstGenerate

SpecLoad == InitLoad /\ [][NextLoad]_vars

\* A cache file that _load_cache can use as it is.
IntactFile(f) ==
    /\ f.form = "object"
    /\ f.version = CACHE_VERSION
    /\ f.tables = CacheTableNames

\* C12: whatever the cache file holds, if it is not an intact cache then
\* constructing the BuildCache raises nothing and leaves the empty cache,
\* and the next generate() raises nothing from the cache and rebuilds
\* every page.
C12_CorruptCacheIsEmpty ==
    ~IntactFile(cacheFile) =>
        /\ loadErr = "none"
        /\ loadPc # "start" => cacheObj = "empty"
        /\ loadPc = "generated" /\ StaticPages # {} => fullRebuild


(***************************************************************************)
(* The build command (commands/build.py): the steps of the production      *)
(* build in the order of the code.  Each optional step has its flag; a     *)
(* step that raises is caught by the command's except clause, which exits  *)
(* with code 1.                                                            *)
(***************************************************************************)
BuildRest == <<coreVars, shutVars, loadVars, deployVars, dynVars, fpVars,
               smVars, storeVars, tidyVars, regenVars, chgVars, ignVars,
               rpVars, assetVars, rebuildVars, servedVars>>

\* The plan with the post-build event fired before the metadata is written.
C13_MutantBuildPlan ==
    <<"nitro.pre_build", "generate", "optimize_css", "optimize_images",
      "responsive_images", "fingerprint_assets", "islands",
      "nitro.post_build", "generate_sitemap", "generate_robots_txt",
      "create_asset_manifest", "calculate_build_size">>

BuildPlan ==
    <<"nitro.pre_build", "generate", "optimize_css", "optimize_images",
      "responsive_images", "fingerprint_assets", "islands",
      "generate_sitemap", "generate_robots_txt", "create_asset_manifest",
      "calculate_build_size", "nitro.post_build">>

\* The condition the code puts before a step.
StepFlag(step) ==
    CASE step = "optimize_css" -> buildOpts.minify
      [] step = "optimize_images" -> buildOpts.optimize
      [] step = "responsive_images" -> buildOpts.responsive
      [] step = "fingerprint_assets" -> buildOpts.fingerprint
      [] step = "islands" -> buildOpts.islands
      [] OTHER -> TRUE

AtStep == IF buildPos \in DOMAIN BuildPlan THEN BuildPlan[buildPos] ELSE "none"

\* generator.plugin_loader.trigger("nitro.pre_build", ...)
PreBuild ==
    /\ AtStep = "nitro.pre_build"
    /\ buildTrace' = Append(buildTrace, AtStep)
    /\ buildPos' = buildPos + 1
    /\ UNCHANGED <<BuildRest, buildOpts, genResult, exitCode>>

\* generator.generate(...): on False sys.exit(1); an exception reaches the
\* except clause, which also exits with 1.
BuildGenerate(result) ==
    /\ AtStep = "generate"
    /\ buildTrace' = Append(buildTrace, AtStep)
    /\ genResult' = result
    /\ IF result = "true"
       THEN buildPos' = buildPos + 1 /\ exitCode' = exitCode
       ELSE buildPos' = 0 /\ exitCode' = 1
    /\ UNCHANGED <<BuildRest, buildOpts>>

\* A bundling or metadata step whose flag is set runs to its end.
BundleStep ==
    /\ AtStep \notin {"none", "nitro.pre_build", "generate", "nitro.post_build"}
    /\ StepFlag(AtStep)
    /\ buildTrace' = Append(buildTrace, AtStep)
    /\ buildPos' = buildPos + 1
    /\ UNCHANGED <<BuildRest, buildOpts, genResult, exitCode>>

\* A step whose flag is off is passed over.
SkipStep ==
    /\ AtStep # "none"
    /\ ~StepFlag(AtStep)
    /\ buildPos' = buildPos + 1
    /\ UNCHANGED <<BuildRest, buildOpts, buildTrace, genResult, exitCode>>

\* A bundling or metadata step raises: except Exception, sys.exit(1).
StepRaises ==
    /\ AtStep \notin {"none", "nitro.pre_build", "generate", "nitro.post_build"}
    /\ StepFlag(AtStep)
    /\ buildPos' = 0
    /\ exitCode' = 1
    /\ UNCHANGED <<BuildRest, buildOpts, buildTrace, genResult>>

\* generator.plugin_loader.trigger("nitro.post_build", ...)
PostBuild ==
    /\ AtStep = "nitro.post_build"
    /\ buildTrace' = Append(buildTrace, AtStep)
    /\ buildPos' = buildPos + 1
    /\ UNCHANGED <<BuildRest, buildOpts, genResult, exitCode>>

\* The summary is printed and the command returns.
BuildSummary ==
    /\ buildPos = Len(BuildPlan) + 1
    /\ buildPos' = 0
    /\ exitCode' = 0
    /\ UNCHANGED <<BuildRest, buildOpts, buildTrace, genResult>>

\* SpecBuild: nitro build under every combination of its five flags.
InitBuild ==
    /\ IdleSite
    /\ IdleHttp
    /\ IdleWatch
    /\ IdleServe
    /\ IdleTools({"build"})
    /\ buildOpts \in [minify : BOOLEAN, optimize : BOOLEAN, responsive : BOOLEAN,
                      fingerprint : BOOLEAN, islands : BOOLEAN]
    /\ buildPos = 1
    /\ buildTrace = <<>>
    /\ genResult = "none"
    /\ exitCode = NoEntry

NextBuild ==
    \/ PreBuild
    \/ \E r \in {"true", "false", "raised"} : BuildGenerate(r)
    \/ BundleStep
    \/ SkipStep
    \/ StepRaises
    \/ PostBuild
    \/ BuildSummary

SpecBuild == InitBuild /\ [][NextBuild]_vars

Steps(trace) == {trace[i] : i \in DOMAIN trace}

\* C13: the steps of build happen in the fixed order pre-build, generation,
\* CSS minification, image optimisation, responsive images, fingerprinting,
\* islands, sitemap, robots, manifest, statistics, post-build.  Generation
\* never precedes pre-build; after a failed generation nothing else is
\* done and the exit code is not zero; the post-build event comes only
\* after every step whose flag is set, after sitemap, robots and manifest
\* (whatever the flags) and after the statistics; a build that ends with
\* exit code 0 has fired it.
C13_BuildOrder ==
    LET order == <<"nitro.pre_build", "generate", "optimize_css",
                   "optimize_images", "responsive_images",
                   "fingerprint_assets", "islands", "generate_sitemap",
                   "generate_robots_txt", "create_asset_manifest",
                   "calculate_build_size", "nitro.post_build">>
        rank(x) == CHOOSE i \in DOMAIN order : order[i] = x
        done == Steps(buildTrace)
        optional == [optimize_css |-> buildOpts.minify,
                     optimize_images |-> buildOpts.optimize,
                     responsive_images |-> buildOpts.responsive,
                     fingerprint_assets |-> buildOpts.fingerprint,
                     islands |-> buildOpts.islands]
    IN /\ done \subseteq Steps(order)
       /\ \A i, j \in DOMAIN buildTrace :
             i < j => rank(buildTrace[i]) < rank(buildTrace[j])
       /\ "generate" \in done => "nitro.pre_build" \in done
       /\ genResult \in {"false", "raised"} =>
             /\ done = {"nitro.pre_build", "generate"}
             /\ exitCode = 1
       /\ \A s \in DOMAIN optional : s \in done => optional[s]
       /\ "nitro.post_build" \in done =>
             /\ {s \in DOMAIN optional : optional[s]} \subseteq done
             /\ {"generate_sitemap", "generate_robots_txt",
                 "create_asset_manifest", "calculate_build_size"} \subseteq done
       /\ exitCode = 0 => "nitro.post_build" \in done

\* A build without --minify and --fingerprint has ended with exit code 0.
C13_Witness ==
    /\ exitCode = 0
    /\ ~buildOpts.minify /\ ~buildOpts.fingerprint /\ buildOpts.islands
    /\ Len(buildTrace) = 9


(***************************************************************************)
(* The deploy command (commands/deploy.py).                                *)
(***************************************************************************)
DeployRest == <<coreVars, shutVars, loadVars, buildVars, dynVars, fpVars,
                smVars, storeVars, tidyVars, regenVars, chgVars, ignVars,
                rpVars, assetVars, rebuildVars, servedVars>>

Platforms == <<"netlify", "vercel", "cloudflare">>

\* The config file and the command-line tool of each platform.
PlatformFile == [netlify |-> "netlify.toml", vercel |-> "vercel.json",
                 cloudflare |-> "wrangler.toml"]
PlatformTool == [netlify |-> "netlify", vercel |-> "vercel",
                 cloudflare |-> "wrangler"]

\* The first platform of the list that satisfies test, or "none".
FirstPlatform(test(_)) ==
    IF \E i \in DOMAIN Platforms : test(Platforms[i])
    THEN Platforms[CHOOSE i \in DOMAIN Platforms :
                      /\ test(Platforms[i])
                      /\ \A j \in 1..(i - 1) : ~test(Platforms[j])]
    ELSE "none"

\* Tools before files.
C14_MutantDetectPlatform(files, tools) ==
    LET hasFile(p) == PlatformFile[p] \in files
        hasTool(p) == PlatformTool[p] \in tools
    IN IF FirstPlatform(hasTool) # "none" THEN FirstPlatform(hasTool)
       ELSE FirstPlatform(hasFile)

\* _detect_platform
DetectPlatform(files, tools) ==
    LET hasFile(p) == PlatformFile[p] \in files
        hasTool(p) == PlatformTool[p] \in tools
    IN IF FirstPlatform(hasFile) # "none" THEN FirstPlatform(hasFile)
       ELSE FirstPlatform(hasTool)

\* if build: ctx.invoke(build_cmd, ...); SystemExit with a code other than
\* 0 aborts.  A build that succeeds has made the build directory; a failed
\* one may have.
PreDeployBuild(ok) ==
    /\ deployPc = "start"
    /\ IF ~deployOpts.build
       THEN /\ deployPc' = "built"
            /\ UNCHANGED <<buildOutcome, buildDirExists, deployExit>>
       ELSE IF ok
       THEN /\ deployPc' = "built"
            /\ buildOutcome' = "ok"
            /\ buildDirExists' = TRUE
            /\ deployExit' = deployExit
       ELSE /\ deployPc' = "done"
            /\ buildOutcome' = "failed"
            /\ buildDirExists' \in {buildDirExists, TRUE}
            /\ deployExit' = 1
    /\ UNCHANGED <<DeployRest, deployOpts, rootFiles, installed, chosen, invoked>>

\* The check of the build directory and the choice of the platform.
ChoosePlatform ==
    /\ deployPc = "built"
    /\ LET platform == IF deployOpts.platform = "auto"
                       THEN DetectPlatform(rootFiles, installed)
                       ELSE deployOpts.platform
       IN IF ~buildDirExists \/ platform = "none"
          THEN deployPc' = "done" /\ deployExit' = 1 /\ chosen' = chosen
          ELSE deployPc' = "chosen" /\ deployExit' = deployExit /\ chosen' = platform
    /\ UNCHANGED <<DeployRest, deployOpts, rootFiles, installed, buildDirExists,
                   buildOutcome, invoked>>

\* _deploy_netlify, _deploy_vercel, _deploy_cloudflare: exit 1 when the
\* tool is not installed, else run it and exit 1 unless it returns 0.
RunTool(returncode) ==
    /\ deployPc = "chosen"
    /\ deployPc' = "done"
    /\ IF PlatformTool[chosen] \notin installed
       THEN invoked' = invoked /\ deployExit' = 1
       ELSE /\ invoked' = PlatformTool[chosen]
            /\ deployExit' = IF returncode = 0 THEN 0 ELSE 1
    /\ UNCHANGED <<DeployRest, deployOpts, rootFiles, installed, buildDirExists,
                   buildOutcome, chosen>>

\* SpecDeploy: nitro deploy with any options, in any project root and with
\* any set of tools installed.
InitDeploy ==
    /\ IdleSite
    /\ IdleHttp
    /\ IdleWatch
    /\ IdleServe
    /\ IdleTools({"deploy"})
    /\ deployOpts \in [platform : {"auto", "netlify", "vercel", "cloudflare"},
                       build : BOOLEAN]
    /\ rootFiles \in SUBSET {"netlify.toml", "vercel.json", "wrangler.toml"}
    /\ installed \in SUBSET {"netlify", "vercel", "wrangler"}
    /\ buildDirExists \in BOOLEAN
    /\ deployPc = "start"
    /\ buildOutcome = "none"
    /\ chosen = "none"
    /\ invoked = "none"
    /\ deployExit = NoEntry

NextDeploy ==
    \/ \E ok \in BOOLEAN : PreDeployBuild(ok)
    \/ ChoosePlatform
    \/ \E rc \in {0, 1} : RunTool(rc)

SpecDeploy == InitDeploy /\ [][NextDeploy]_vars

\* C14: a deployment tool is invoked only if the requested build
\* succeeded, the build directory exists and a platform was chosen: the
\* one given, or with auto the first platform whose config file is in the
\* project root, or without any such file the first platform whose tool
\* is installed; the tool invoked is that platform's.  When the build
\* fails, the build directory is missing or no platform can be detected,
\* no tool is invoked and the exit code is not zero.
C14_DeployOnlyWhenReady ==
    LET withFile == {p \in DOMAIN PlatformFile : PlatformFile[p] \in rootFiles}
        withTool == {p \in DOMAIN PlatformTool : PlatformTool[p] \in installed}
        undetected == deployOpts.platform = "auto" /\ withFile = {} /\ withTool = {}
    IN /\ invoked # "none" =>
             /\ deployOpts.build => buildOutcome = "ok"
             /\ buildDirExists
             /\ invoked = PlatformTool[chosen]
             /\ IF deployOpts.platform # "auto" THEN chosen = deployOpts.platform
                ELSE IF withFile # {} THEN chosen \in withFile
                ELSE chosen \in withTool
       /\ deployPc = "done"
          /\ (buildOutcome = "failed" \/ ~buildDirExists \/ undetected) =>
             /\ invoked = "none"
             /\ deployExit # 0 /\ deployExit # NoEntry

\* The platform was detected from vercel.json although only the netlify
\* and vercel tools are installed, and the vercel tool has run.
C14_Witness ==
    /\ deployOpts.platform = "auto"
    /\ rootFiles = {"vercel.json"}
    /\ installed = {"netlify", "vercel"}
    /\ invoked = "vercel"
    /\ deployExit = 0


(***************************************************************************)
(* Dynamic routes (core/renderer.py, render_dynamic_page, and the loop of  *)
(* generate() that writes its results).  Text is a sequence of tokens: a   *)
(* bracketed parameter "[a]" or "[b]", or literal text.  A parameter set   *)
(* is a dict, given as its (key, value) pairs in iteration order, or a     *)
(* single value; a value is one token, and may itself be text in brackets. *)
(***************************************************************************)
MaxSets == 2

DynRest == <<coreVars, shutVars, loadVars, buildVars, deployVars, fpVars,
             smVars, storeVars, tidyVars, regenVars, chgVars, ignVars,
             rpVars, assetVars, rebuildVars, servedVars>>

ParamKeys == {"a", "b"}
ParamValues == {"x", "[b]"}
Bracket(key) == "[" \o key \o "]"
BracketTokens == {Bracket(k) : k \in ParamKeys}
Stems == {<<"[a]">>, <<"[a]", "-", "[b]">>, <<"post-", "[b]">>}

\* str.replace(old, new) for a one-token old and new.
ReplaceToken(text, old, new) ==
    [i \in DOMAIN text |-> IF text[i] = old THEN new ELSE text[i]]

\* The loop "for key, value in params.items(): output_name =
\* output_name.replace(f"[{key}]", str(value))".
RECURSIVE ReplaceEach(_, _)
ReplaceEach(text, pairs) ==
    IF pairs = <<>> THEN text
    ELSE ReplaceEach(ReplaceToken(text, Bracket(pairs[1][1]), pairs[1][2]),
                     Tail(pairs))

\* _get_dynamic_output_name: a dict replaces key by key; any other value
\* replaces every bracketed token in one pass of re.sub.
GetDynamicOutputName(stem, params) ==
    (IF params.kind = "dict"
     THEN ReplaceEach(stem, params.pairs)
     ELSE [i \in DOMAIN stem |->
             IF stem[i] \in BracketTokens THEN params.value ELSE stem[i]])
    \o <<".html">>

\* The parameter sets get_paths() may return: a set renders to HTML, to
\* the empty string, or faults.
DictParams ==
    {<<>>} \cup {<<<<k, v>>>> : k \in ParamKeys, v \in ParamValues}
    \cup {p \in (ParamKeys \X ParamValues) \X (ParamKeys \X ParamValues) :
            p[1][1] # p[2][1]}

ParamSets ==
    [kind : {"dict"}, pairs : DictParams, value : {"none"},
     outcome : {"html", "empty", "fault"}]
    \cup
    [kind : {"single"}, pairs : {<<>>}, value : ParamValues,
     outcome : {"html", "empty", "fault"}]

\* render_dynamic_page: the loop over get_paths(); a fault inside the
\* loop body is logged and the loop goes on.
RenderDynamicPage ==
    /\ dynPc = "start"
    /\ dynPc' = "rendered"
    /\ LET rendered(s) == s.outcome # "fault"
           good == SelectSeq(dynSets, rendered)
       IN dynResults' =
            [i \in DOMAIN good |->
                [name |-> GetDynamicOutputName(dynStem, good[i]),
                 html |-> good[i].outcome]]
    /\ UNCHANGED <<DynRest, dynStem, dynSets, dynWritten>>

\* generate(): for output_name, html in results: if html: write.
WriteDynamic ==
    /\ dynPc = "rendered"
    /\ dynPc' = "written"
    /\ LET nonEmpty(r) == r.html # "empty"
           toWrite == SelectSeq(dynResults, nonEmpty)
       IN dynWritten' = [i \in DOMAIN toWrite |-> toWrite[i].name]
    /\ UNCHANGED <<DynRest, dynStem, dynSets, dynResults>>

\* SpecDynamic: one dynamic route file whose get_paths() returns up to
\* MaxSets parameter sets.
InitDynamic ==
    /\ IdleSite
    /\ IdleHttp
    /\ IdleWatch
    /\ IdleServe
    /\ IdleTools({"dynamic"})
    /\ dynStem \in Stems
    /\ \E n \in 0..MaxSets : dynSets \in [1..n -> ParamSets]
    /\ dynPc = "start"
    /\ dynResults = <<>>
    /\ dynWritten = <<>>

NextDynamic == RenderDynamicPage \/ WriteDynamic

SpecDynamic == InitDynamic /\ [][NextDynamic]_vars

\* The name the file name's bracketed tokens give under one parameter
\* set: each token of the stem that names a key of the set (any token,
\* for a single value) stands for that key's value.
SubstitutedName(stem, params) ==
    LET valueOf(k) ==
            LET i == CHOOSE j \in DOMAIN params.pairs : params.pairs[j][1] = k
            IN params.pairs[i][2]
        keys == {params.pairs[j][1] : j \in DOMAIN params.pairs}
        keyOf(t) == CHOOSE k \in ParamKeys : Bracket(k) = t
    IN [i \in DOMAIN stem |->
          IF stem[i] \notin BracketTokens THEN stem[i]
          ELSE IF params.kind = "single" THEN params.value
          ELSE IF keyOf(stem[i]) \in keys THEN valueOf(keyOf(stem[i]))
          ELSE stem[i]] \o <<".html">>

\* C15: render_dynamic_page returns one pair for each parameter set that
\* renders without fault, in get_paths() order, named by substituting the
\* bracketed tokens of the file name with the set's values; the sets next
\* to a faulting one are rendered, and written when they have HTML.
C15_DynamicInstances ==
    LET rendered(s) == s.outcome # "fault"
        good == SelectSeq(dynSets, rendered)
        hasHtml(s) == s.outcome = "html"
        full == SelectSeq(dynSets, hasHtml)
    IN /\ dynPc \in {"rendered", "written"} =>
             /\ Len(dynResults) = Len(good)
             /\ \A i \in DOMAIN good :
                   /\ dynResults[i].name = SubstitutedName(dynStem, good[i])
                   /\ dynResults[i].html = good[i].outcome
       /\ dynPc = "written" =>
             dynWritten = [i \in DOMAIN full |-> SubstitutedName(dynStem, full[i])]


(***************************************************************************)
(* Bundler.fingerprint_assets (core/bundler.py).  A path relative to the   *)
(* build directory is a record of its directory segments, the stem of the  *)
(* file name, the hash inserted into the name ("" for none) and the        *)
(* suffix.  An attribute value is such a path behind a prefix: none, "/",  *)
(* "./" or "../".  Two texts are equal exactly when the records are.       *)
(***************************************************************************)
FpRest == <<coreVars, shutVars, loadVars, buildVars, deployVars, dynVars,
            smVars, storeVars, tidyVars, regenVars, chgVars, ignVars, rpVars,
            assetVars, rebuildVars, servedVars>>

AssetPaths ==
    {[dir |-> <<"assets">>, stem |-> "main", hash |-> "", suffix |-> ".css"],
     [dir |-> <<"blog">>, stem |-> "main", hash |-> "", suffix |-> ".css"],
     [dir |-> <<>>, stem |-> "app", hash |-> "", suffix |-> ".js"]}

HtmlFiles == {<<>>, <<"blog">>}

AttrValues ==
    [prefix : {"", "/", "./", "../"},
     path : [dir : {<<>>, <<"assets">>, <<"blog">>}, stem : {"main", "app"},
             hash : {""}, suffix : {".css", ".js"}]]

\* hashlib.md5(content).hexdigest()[:8]
ContentHash(content) == "md5-" \o ToString(content)

\* new_name = f"{stem}.{content_hash}{suffix}" in the same directory
NewPath(asset_path, content) == [asset_path EXCEPT !.hash = ContentHash(content)]

\* Path(p).name
FileName(p) == [p EXCEPT !.dir = <<>>]

\* The twelve patterns for one (old_path, new_path) of the mapping: the
\* value is old_path, or "/" and old_path, or the bare file name.
ReplaceRef(value, old_path, new_path) ==
    IF value.prefix \in {"", "/"} /\ value.path = old_path
    THEN [value EXCEPT !.path = new_path]
    ELSE IF value.prefix = "" /\ value.path = FileName(old_path)
    THEN [value EXCEPT !.path = FileName(new_path)]
    ELSE value

\* The loop over path_mapping.items() on one HTML file's content.
RECURSIVE ReplaceAll(_, _)
ReplaceAll(value, mapping) ==
    IF mapping = <<>> THEN value
    ELSE ReplaceAll(ReplaceRef(value, mapping[1][1], mapping[1][2]), Tail(mapping))

\* The whole of fingerprint_assets.
FingerprintAssets ==
    /\ fpPc = "start"
    /\ fpPc' = "done"
    /\ LET mapping == [i \in DOMAIN fpOrder |->
                          <<fpOrder[i], NewPath(fpOrder[i], fpFiles[fpOrder[i]])>>]
       IN /\ path_mapping' = mapping
          /\ fpFiles' = [p \in {mapping[i][2] : i \in DOMAIN mapping} |->
                           LET i == CHOOSE j \in DOMAIN mapping : mapping[j][2] = p
                           IN fpFiles[mapping[i][1]]]
          /\ fpHtml' = [h \in DOMAIN fpHtml |-> ReplaceAll(fpHtml[h], mapping)]
    /\ UNCHANGED <<FpRest, fpOrder, fpFiles0, fpHtml0>>

\* SpecFingerprint: a build directory with any of three assets, two HTML
\* files (one at the root, one under blog/) each holding one reference,
\* and rglob yielding the .css files in any order before the .js files.
InitFingerprint ==
    /\ IdleSite
    /\ IdleHttp
    /\ IdleWatch
    /\ IdleServe
    /\ IdleTools({"fingerprint"})
    /\ \E present \in SUBSET AssetPaths : fpFiles \in [present -> Vers]
    /\ fpOrder \in {s \in UNION {[1..n -> AssetPaths] : n \in 0..Cardinality(AssetPaths)} :
                      /\ {s[i] : i \in DOMAIN s} = DOMAIN fpFiles
                      /\ Len(s) = Cardinality(DOMAIN fpFiles)
                      /\ \A i, j \in DOMAIN s :
                            s[i].suffix = ".js" /\ s[j].suffix = ".css" => j < i}
    /\ fpHtml \in [HtmlFiles -> AttrValues]
    /\ fpPc = "start"
    /\ fpFiles0 = fpFiles
    /\ fpHtml0 = fpHtml
    /\ path_mapping = <<>>

NextFingerprint == FingerprintAssets

SpecFingerprint == InitFingerprint /\ [][NextFingerprint]_vars

\* The file a browser asks for when the HTML file in directory html_dir
\* holds the attribute value: "/" counts from the build root, "../" from
\* the parent directory, anything else from the file's own directory.
ResolveRef(html_dir, value) ==
    [value.path EXCEPT !.dir =
        IF value.prefix = "/" THEN value.path.dir
        ELSE IF value.prefix = "../"
             THEN SubSeq(html_dir, 1, Len(html_dir) - 1) \o value.path.dir
             ELSE html_dir \o value.path.dir]

\* C16: after fingerprint_assets() the build directory holds each former
\* .css/.js file under its new name only, the name carrying the hash of
\* the content the file has; the mapping is exactly old name to new name;
\* and every reference that named one of the old files names the file it
\* has become.
C16_FingerprintComplete ==
    fpPc = "done" =>
        LET new(p) == [p EXCEPT !.hash = ContentHash(fpFiles0[p])]
        IN /\ DOMAIN fpFiles = {new(p) : p \in DOMAIN fpFiles0}
           /\ \A p \in DOMAIN fpFiles :
                 p.hash # "" /\ p.hash = ContentHash(fpFiles[p])
           /\ {path_mapping[i] : i \in DOMAIN path_mapping}
                 = {<<p, new(p)>> : p \in DOMAIN fpFiles0}
           /\ \A h \in HtmlFiles :
                 ResolveRef(h, fpHtml0[h]) \in DOMAIN fpFiles0 =>
                    ResolveRef(h, fpHtml[h]) = new(ResolveRef(h, fpHtml0[h]))

\* C28: whatever files and directories the build directory holds, a
\* reference of an HTML file that resolved to an existing .css/.js file
\* before fingerprint_assets() resolves to an existing file after it, the
\* one that file was renamed to.
C28_ReferencesFollowRename ==
    fpPc = "done" =>
        \A h \in HtmlFiles :
            LET before == ResolveRef(h, fpHtml0[h])
                after == ResolveRef(h, fpHtml[h])
            IN before \in DOMAIN fpFiles0 =>
                  /\ after \in DOMAIN fpFiles
                  /\ after = NewPath(before, fpFiles0[before])


(***************************************************************************)
(* Bundler.generate_sitemap (core/bundler.py).  Text is a sequence of      *)
(* tokens, "/" being a token of its own, and the length of a text in       *)
(* characters is the sum of the lengths of its tokens.                     *)
(***************************************************************************)
MaxHtmlFiles == 2

SitemapRest == <<coreVars, shutVars, loadVars, buildVars, deployVars,
                 dynVars, fpVars, storeVars, tidyVars, regenVars, chgVars,
                 ignVars, rpVars, assetVars, rebuildVars, servedVars>>

\* len("/index.html"), the number of characters url_path[:-11] removes.
IndexSuffixChars == 11

TokenChars == [t \in {"/", "index.html", "post.html", "blog", "docs",
                      "https://example.com"} |->
                 CASE t = "/" -> 1
                   [] t = "index.html" -> 10
                   [] t = "post.html" -> 9
                   [] t = "blog" -> 4
                   [] t = "docs" -> 4
                   [] t = "https://example.com" -> 19]

RelPaths == {<<"index.html">>, <<"post.html">>, <<"blog", "index.html">>,
             <<"blog", "post.html">>, <<"docs", "blog", "index.html">>}

BaseUrls == {<<"https://example.com">>, <<"https://example.com", "/">>,
             <<"https://example.com", "/", "/">>}

\* str(rel_path) with "/" between the segments.
RECURSIVE PathText(_)
PathText(segments) ==
    IF Len(segments) <= 1 THEN segments
    ELSE <<segments[1], "/">> \o PathText(Tail(segments))

\* base_url.rstrip('/')
RECURSIVE RStripSlash(_)
RStripSlash(text) ==
    IF text # <<>> /\ text[Len(text)] = "/"
    THEN RStripSlash(SubSeq(text, 1, Len(text) - 1))
    ELSE text

\* The slice leaves the text as it is.
C17_MutantDropChars(text, n) == text

\* text[:-n] for an n that ends on a token boundary.
RECURSIVE DropChars(_, _)
DropChars(text, n) ==
    IF n <= 0 \/ text = <<>> THEN text
    ELSE DropChars(SubSeq(text, 1, Len(text) - 1), n - TokenChars[text[Len(text)]])

\* One turn of the loop: the location and the priority of one file.
SitemapEntry(base, rel_path) ==
    LET text == PathText(rel_path)
        url_path == IF text = <<"index.html">> THEN <<>>
                    ELSE IF Len(text) >= 2
                            /\ SubSeq(text, Len(text) - 1, Len(text)) = <<"/", "index.html">>
                         THEN DropChars(text, IndexSuffixChars)
                         ELSE text
    IN [loc |-> RStripSlash(base) \o <<"/">> \o url_path,
        priority |-> IF url_path = <<>> THEN "1.0" ELSE "0.8"]

\* generate_sitemap
GenerateSitemap ==
    /\ smPc = "start"
    /\ smPc' = "done"
    /\ urls' = [i \in DOMAIN html_files |-> SitemapEntry(base_url, html_files[i])]
    /\ UNCHANGED <<SitemapRest, base_url, html_files>>

\* SpecSitemap: up to MaxHtmlFiles built files and a base URL with or
\* without trailing slashes.
InitSitemap ==
    /\ IdleSite
    /\ IdleHttp
    /\ IdleWatch
    /\ IdleServe
    /\ IdleTools({"sitemap"})
    /\ base_url \in BaseUrls
    /\ \E n \in 0..MaxHtmlFiles : html_files \in [1..n -> RelPaths]
    /\ smPc = "start"
    /\ urls = <<>>

NextSitemap == GenerateSitemap

SpecSitemap == InitSitemap /\ [][NextSitemap]_vars

\* The base URL without trailing slashes.
SiteRoot == <<"https://example.com">>

\* The directory of an index file, and whether a file is one.
IsIndex(rel_path) == rel_path[Len(rel_path)] = "index.html"
DirOf(rel_path) == SubSeq(rel_path, 1, Len(rel_path) - 1)

\* C17 as stated: index.html at the build root is located at base_url
\* followed by "/", <dir>/index.html at base_url/<dir>/, no location ends
\* in index.html, and the priority is 1.0 for the root entry and 0.8 for
\* every other.
C17_DirectoryLocations ==
    smPc = "done" =>
        \A i \in DOMAIN html_files :
            LET f == html_files[i]
            IN /\ IsIndex(f) =>
                    /\ urls[i].loc[Len(urls[i].loc)] # "index.html"
                    /\ IF DirOf(f) = <<>>
                       THEN urls[i].loc = SiteRoot \o <<"/">>
                       ELSE urls[i].loc
                              = SiteRoot \o <<"/">> \o PathText(DirOf(f)) \o <<"/">>
               /\ urls[i].priority = IF f = <<"index.html">> THEN "1.0" ELSE "0.8"

\* C17 amended: <dir>/index.html is located at base_url/<dir>, with no
\* slash after the directory; the rest as stated.
C17_DirectoryWithoutSlash ==
    smPc = "done" =>
        \A i \in DOMAIN html_files :
            LET f == html_files[i]
            IN /\ urls[i].loc[Len(urls[i].loc)] # "index.html"
               /\ IF IsIndex(f)
                  THEN IF DirOf(f) = <<>>
                       THEN urls[i].loc = SiteRoot \o <<"/">>
                       ELSE urls[i].loc = SiteRoot \o <<"/">> \o PathText(DirOf(f))
                  ELSE urls[i].loc = SiteRoot \o <<"/">> \o PathText(f)
               /\ urls[i].priority = IF f = <<"index.html">> THEN "1.0" ELSE "0.8"

\* The sitemap of a build with index.html and docs/blog/index.html.
C17_Witness ==
    /\ smPc = "done"
    /\ html_files = <<<<"index.html">>, <<"docs", "blog", "index.html">>>>
    /\ base_url = <<"https://example.com", "/">>
    /\ urls[2].loc = <<"https://example.com", "/", "docs", "/", "blog">>


(***************************************************************************)
(* NitroDataStore (core/datastore.py).  A Python dict is an object: heap   *)
(* holds the dicts by address, and a dict's entry is a cell, a text        *)
(* ("str"), a list ("list") or the address of another dict ("dict"), and   *)
(* "absent" at a key the dict does not have.  A literal is a value as a    *)
(* caller writes it, its maps nested in place.                             *)
(***************************************************************************)
MaxStoreOps == 3

StoreRest == <<coreVars, shutVars, loadVars, buildVars, deployVars, dynVars,
               fpVars, smVars, tidyVars, regenVars, chgVars, ignVars, rpVars,
               assetVars, rebuildVars, servedVars>>

StoreKeys == {"a", "b"}
KeySeq == <<"a", "b">>
Str(s) == [str |-> s]
Lst(l) == [list |-> l]
Ref(a) == [ref |-> a]
Lit(m) == [map |-> m]
NoneCell == [none |-> TRUE]
NoCell == [absent |-> TRUE]
EmptyMap == [k \in StoreKeys |-> NoCell]
NoWrapper == [key |-> "", data |-> 0, at |-> 0]
Put(m, k, c) == [m EXCEPT ![k] = c]
Del(m, k) == [m EXCEPT ![k] = NoCell]
In(k, m) == "absent" \notin DOMAIN m[k]
IsDict(c) == "ref" \in DOMAIN c
One(k, c) == Put(EmptyMap, k, c)
StorePaths == {<<"a">>, <<"b">>, <<"a", "a">>, <<"a", "b">>, <<"b", "a">>,
               <<"a", "b", "a">>}

\* The stores a run starts from, the overlays it merges and the values it
\* sets.
StoreLiterals ==
    {Lit(EmptyMap),
     Lit(One("a", Str("s"))),
     Lit(One("a", Lit(One("a", Str("s"))))),
     Lit(Put(One("a", Lit(Put(One("a", Str("s")), "b", Lst(<<"c">>)))),
             "b", Lst(<<"c">>))),
     Lit(One("a", Lit(One("b", Lit(One("a", Str("s")))))))}
Overlays ==
    {Lit(One("a", Str("n"))),
     Lit(One("a", Lit(One("a", Str("n"))))),
     Lit(One("a", Lit(One("b", Lst(<<"d">>))))),
     Lit(One("b", Lst(<<"d">>))),
     Lit(One("b", Lit(One("a", Str("n"))))),
     Lit(One("a", Lit(One("b", Lit(One("b", Str("n")))))))}
SetValues == {Str("n"), Lit(EmptyMap)}

\* The objects a literal makes in memory: the heap with them added, and the
\* cell that holds the literal.
RECURSIVE Intern(_, _)
RECURSIVE InternKeys(_, _, _, _)
InternKeys(h, m, lit, ks) ==
    IF ks = <<>> THEN [h |-> h, m |-> m]
    ELSE IF ~In(Head(ks), lit) THEN InternKeys(h, m, lit, Tail(ks))
    ELSE LET i == Intern(h, lit[Head(ks)])
         IN  InternKeys(i.h, Put(m, Head(ks), i.c), lit, Tail(ks))
Intern(h, value) ==
    IF "map" \notin DOMAIN value THEN [h |-> h, c |-> value]
    ELSE LET r == InternKeys(h, EmptyMap, value.map, KeySeq)
         IN  [h |-> Append(r.h, r.m), c |-> Ref(Len(r.h) + 1)]

\* The value a cell holds, its maps nested in place.
RECURSIVE Deref(_, _)
Deref(h, c) ==
    IF ~IsDict(c) THEN c
    ELSE Lit([k \in StoreKeys |-> Deref(h, h[c.ref][k])])

\* get(key, default): the walk of the keys from _data.  (A key without a dot
\* takes self._data.get(key, default), the same walk of one key.)
RECURSIVE GetPath(_, _, _, _)
GetPath(h, value, keys, default) ==
    IF keys = <<>> THEN value
    ELSE IF IsDict(value) /\ In(Head(keys), h[value.ref])
         THEN GetPath(h, h[value.ref][Head(keys)], Tail(keys), default)
         ELSE default

\* has(key): the same walk, answering whether it reached the end.
RECURSIVE HasPath(_, _, _)
HasPath(h, value, keys) ==
    IF keys = <<>> THEN TRUE
    ELSE IF IsDict(value) /\ In(Head(keys), h[value.ref])
         THEN HasPath(h, h[value.ref][Head(keys)], Tail(keys))
         ELSE FALSE

\* set(key, value): every key but the last is walked, a missing one and one
\* that holds no dict being given a new empty dict; the last is assigned.
RECURSIVE SetPath(_, _, _, _)
SetPath(h, current, keys, c) ==
    IF Len(keys) = 1 THEN [h EXCEPT ![current] = Put(@, keys[1], c)]
    ELSE LET k == Head(keys)
         IN  IF In(k, h[current]) /\ IsDict(h[current][k])
             THEN SetPath(h, h[current][k].ref, Tail(keys), c)
             ELSE SetPath(Append([h EXCEPT ![current] =
                                         Put(@, k, Ref(Len(h) + 1))],
                                 EmptyMap),
                          Len(h) + 1, Tail(keys), c)

\* A delete that answers whether the key was there and removes nothing.
C19_MutantDeletePath(h, current, keys) ==
    [h |-> h, result |-> HasPath(h, Ref(current), keys)]

\* delete(key): the heap after it, and what it returns.
RECURSIVE DeletePath(_, _, _)
DeletePath(h, current, keys) ==
    IF Len(keys) = 1
    THEN IF In(keys[1], h[current])
         THEN [h |-> [h EXCEPT ![current] = Del(@, keys[1])],
               result |-> TRUE]
         ELSE [h |-> h, result |-> FALSE]
    ELSE IF ~In(Head(keys), h[current])
            \/ ~IsDict(h[current][Head(keys)])
         THEN [h |-> h, result |-> FALSE]
         ELSE DeletePath(h, h[current][Head(keys)].ref, Tail(keys))

\* A merge of the top level alone, dict.update on a copy of base.
C20_MutantDeepMerge(h, base, overlay) ==
    [h |-> Append(h, [k \in StoreKeys |-> IF In(k, h[overlay])
                                          THEN h[overlay][k]
                                          ELSE h[base][k]]),
     a |-> Len(h) + 1]

\* _deep_merge(base, overlay): a copy of base, each key of overlay put
\* into it, merged when both hold a dict; the heap with the new dicts, and
\* the address of the result.
RECURSIVE DeepMerge(_, _, _)
RECURSIVE MergeKeys(_, _, _, _)
MergeKeys(h, result, overlay, ks) ==
    IF ks = <<>> THEN [h |-> h, m |-> result]
    ELSE LET key == Head(ks)
         IN  IF ~In(key, overlay)
             THEN MergeKeys(h, result, overlay, Tail(ks))
             ELSE IF In(key, result) /\ IsDict(result[key])
                     /\ IsDict(overlay[key])
             THEN LET r == DeepMerge(h, result[key].ref, overlay[key].ref)
                  IN  MergeKeys(r.h, Put(result, key, Ref(r.a)), overlay,
                                Tail(ks))
             ELSE MergeKeys(h, Put(result, key, overlay[key]), overlay,
                            Tail(ks))
DeepMerge(h, base, overlay) ==
    LET r == MergeKeys(h, h[base], h[overlay], KeySeq)
    IN  [h |-> Append(r.h, r.m), a |-> Len(r.h) + 1]

\* __getitem__ / __getattr__ of a key that holds a dict: the _data of the
\* NitroDataStore it returns.
WrappedData(h, current, key) == h[current][key].ref

Logged(op, keys, c, result, arg) ==
    Append(opLog, [op |-> op, keys |-> keys, cell |-> c, result |-> result,
                   arg |-> arg, since |-> wrapper.at,
                   before |-> Deref(heap, Ref(store_data))])

StoreSet(keys, value) ==
    /\ Len(opLog) < MaxStoreOps
    /\ LET i == Intern(heap, value)
       IN  /\ heap' = SetPath(i.h, store_data, keys, i.c)
           /\ opLog' = Logged("set", keys, i.c, TRUE, value)
    /\ UNCHANGED <<store_data, wrapper, StoreRest>>

StoreDelete(keys) ==
    /\ Len(opLog) < MaxStoreOps
    /\ LET d == DeletePath(heap, store_data, keys)
       IN  /\ heap' = d.h
           /\ opLog' = Logged("delete", keys, NoneCell, d.result, NoneCell)
    /\ UNCHANGED <<store_data, wrapper, StoreRest>>

StoreMerge(other) ==
    /\ Len(opLog) < MaxStoreOps
    /\ LET i == Intern(heap, other)
           r == DeepMerge(i.h, store_data, i.c.ref)
       IN  /\ heap' = r.h
           /\ store_data' = r.a
    /\ opLog' = Logged("merge", <<>>, NoneCell, TRUE, other)
    /\ UNCHANGED <<wrapper, StoreRest>>

Subscript(key) ==
    /\ Len(opLog) < MaxStoreOps
    /\ wrapper = NoWrapper
    /\ In(key, heap[store_data])
    /\ IsDict(heap[store_data][key])
    /\ wrapper' = [key |-> key, at |-> Len(opLog),
                   data |-> WrappedData(heap, store_data, key)]
    /\ UNCHANGED <<heap, store_data, opLog, StoreRest>>

\* wrapper.name = value, __setattr__ of the wrapper.
WrapperAssign(name, value) ==
    /\ Len(opLog) < MaxStoreOps
    /\ wrapper # NoWrapper
    /\ heap' = [heap EXCEPT ![wrapper.data] = Put(@, name, value)]
    /\ opLog' = Logged("assign", <<wrapper.key, name>>, value, TRUE, value)
    /\ UNCHANGED <<store_data, wrapper, StoreRest>>

InitStore ==
    /\ IdleSite
    /\ IdleHttp
    /\ IdleWatch
    /\ IdleServe
    /\ IdleTools({"store"})
    /\ \E lit \in StoreLiterals :
          LET i == Intern(<<>>, lit)
          IN  /\ heap = i.h
              /\ store_data = i.c.ref
    /\ wrapper = NoWrapper
    /\ opLog = <<>>

NextStore ==
    \/ \E keys \in StorePaths, value \in SetValues : StoreSet(keys, value)
    \/ \E keys \in StorePaths : StoreDelete(keys)
    \/ \E other \in Overlays : StoreMerge(other)
    \/ \E key \in StoreKeys : Subscript(key)
    \/ \E name \in StoreKeys : WrapperAssign(name, Str("w"))

SpecStore == InitStore /\ [][NextStore]_vars

\* C18: whatever the parent store has done since a wrapper was read from
\* it, short of assigning or deleting the wrapper's key itself, a value
\* assigned through the wrapper is what the parent reads at that key and
\* name.
C18_WrapperSharesMap ==
    LET n == Len(opLog)
    IN  (/\ n > 0
         /\ opLog[n].op = "assign"
         /\ \A i \in (opLog[n].since + 1)..(n - 1) :
               ~(opLog[i].op \in {"set", "delete"}
                 /\ opLog[i].keys = <<opLog[n].keys[1]>>))
        => GetPath(heap, Ref(store_data), opLog[n].keys, NoneCell)
              = opLog[n].cell


\* No key before the last holds a value that is not a map: each is missing
\* or holds a map.
RECURSIVE FreeWay(_, _)
FreeWay(m, keys) ==
    IF Len(keys) <= 1 \/ ~In(Head(keys), m) THEN TRUE
    ELSE /\ "map" \in DOMAIN m[Head(keys)]
         /\ FreeWay(m[Head(keys)].map, Tail(keys))

StoreHas(keys) == HasPath(heap, Ref(store_data), keys)

\* C19: for a key path none of whose ancestors held a non-map value, after
\* set(path, v) get(path) returns v and has(path) is true; a delete(path)
\* that follows returns true and leaves has(path) false; a second
\* delete(path) returns false.
C19_SetGetHasDelete ==
    LET n == Len(opLog)
        SetAt(i) == /\ i >= 1
                    /\ opLog[i].op = "set"
                    /\ opLog[i].keys = opLog[n].keys
                    /\ FreeWay(opLog[i].before.map, opLog[i].keys)
        DeleteAt(i) == opLog[i].op = "delete" /\ opLog[i].keys = opLog[n].keys
    IN  /\ n >= 1 /\ SetAt(n)
           => /\ GetPath(heap, Ref(store_data), opLog[n].keys, NoneCell)
                    = opLog[n].cell
              /\ StoreHas(opLog[n].keys)
        /\ n >= 2 /\ DeleteAt(n) /\ SetAt(n - 1)
           => opLog[n].result /\ ~StoreHas(opLog[n].keys)
        /\ n >= 3 /\ DeleteAt(n) /\ DeleteAt(n - 1) /\ SetAt(n - 2)
           => ~opLog[n].result /\ ~StoreHas(opLog[n].keys)

\* A path of three keys, none of them in the store, has been set, deleted
\* and deleted again.
C19_Witness ==
    /\ Len(opLog) = 3
    /\ opLog[1].op = "set" /\ opLog[2].op = "delete" /\ opLog[3].op = "delete"
    /\ Len(opLog[1].keys) = 3
    /\ opLog[2].keys = opLog[1].keys /\ opLog[3].keys = opLog[1].keys
    /\ ~In(opLog[1].keys[1], opLog[1].before.map)
    /\ opLog[2].result /\ ~opLog[3].result

\* result is the merge of overlay into base as the rule gives it, key by
\* key.
RECURSIVE MergedAs(_, _, _)
MergedAs(result, base, overlay) ==
    \A k \in StoreKeys :
        IF "map" \in DOMAIN base[k] /\ "map" \in DOMAIN overlay[k]
        THEN /\ "map" \in DOMAIN result[k]
             /\ MergedAs(result[k].map, base[k].map, overlay[k].map)
        ELSE IF In(k, overlay) THEN result[k] = overlay[k]
        ELSE result[k] = base[k]

StoreValue == Deref(heap, Ref(store_data))

\* C20: after merge(overlay) the store holds, at every key, the recursive
\* merge where both sides held a map and the overlay's value otherwise; a
\* key of the base alone keeps its value, and a sequence is replaced by the
\* overlay's sequence.
C20_MergeSemantics ==
    LET n == Len(opLog)
    IN  n >= 1 /\ opLog[n].op = "merge"
        => MergedAs(StoreValue.map, opLog[n].before.map, opLog[n].arg.map)

\* A merge has met a map on both sides at "a", below it a sequence on both
\* sides at "b" and a key of the base alone at "a".
C20_Witness ==
    LET n == Len(opLog)
    IN  /\ n >= 1 /\ opLog[n].op = "merge"
        /\ "map" \in DOMAIN opLog[n].before.map["a"]
        /\ "map" \in DOMAIN opLog[n].arg.map["a"]
        /\ "list" \in DOMAIN opLog[n].before.map["a"].map["b"]
        /\ "list" \in DOMAIN opLog[n].arg.map["a"].map["b"]
        /\ In("a", opLog[n].before.map["a"].map)
        /\ ~In("a", opLog[n].arg.map["a"].map)
        /\ StoreValue.map["a"].map["b"] = opLog[n].arg.map["a"].map["b"]
        /\ StoreValue.map["a"].map["b"] # opLog[n].before.map["a"].map["b"]
        /\ StoreValue.map["a"].map["a"] = opLog[n].before.map["a"].map["a"]


(***************************************************************************)
(* NitroDataStore.remove_empty (core/datastore.py).  The store is a value: *)
(* a text, a map from keys to values, or a sequence of values.             *)
(***************************************************************************)
MaxItems == 2
MaxTidyCalls == 3

TidyRest == <<coreVars, shutVars, loadVars, buildVars, deployVars, dynVars,
              fpVars, smVars, storeVars, regenVars, chgVars, ignVars, rpVars,
              assetVars, rebuildVars, servedVars>>

Scalars == {Str("s")}
MapsOver(values) == {Lit(m) : m \in [StoreKeys -> values \cup {NoCell}]}
ListsOver(values) ==
    {Lst(l) : l \in UNION {[1..n -> values] : n \in 0..MaxItems}}
Nested1 == Scalars \cup MapsOver(Scalars) \cup ListsOver(Scalars)
Nested2 == Scalars \cup MapsOver(Nested1) \cup ListsOver(Nested1)
\* The stores tried: three levels deep under "a"; under "b" two levels, or
\* a map of empty containers.
TidyStores ==
    {t \in MapsOver(Nested2) :
        t.map["b"] \in Nested1 \cup MapsOver({Lit(EmptyMap), Lst(<<>>)})
                          \cup {NoCell}}

RECURSIVE SumSeq(_)
SumSeq(s) == IF s = <<>> THEN 0 ELSE Head(s) + SumSeq(Tail(s))

\* A remove_empty that takes only a dict for an empty container.
C21_MutantIsEmptyContainer(obj) ==
    "map" \in DOMAIN obj /\ \A k \in StoreKeys : ~In(k, obj.map)

\* _is_empty_container(obj).
IsEmptyContainer(obj) ==
    \/ "map" \in DOMAIN obj /\ \A k \in StoreKeys : ~In(k, obj.map)
    \/ "list" \in DOMAIN obj /\ Len(obj.list) = 0

\* _remove(obj): the cleaned value, and what it adds to count.
RECURSIVE RemoveEmpty(_)
RemoveEmpty(obj) ==
    IF "map" \in DOMAIN obj
    THEN LET cleaned == [k \in StoreKeys |->
                           IF In(k, obj.map) THEN RemoveEmpty(obj.map[k])
                           ELSE [v |-> NoCell, count |-> 0]]
             dropped(k) == In(k, obj.map) /\ IsEmptyContainer(cleaned[k].v)
         IN  [v |-> Lit([k \in StoreKeys |->
                           IF dropped(k) THEN NoCell ELSE cleaned[k].v]),
              count |-> SumSeq([i \in 1..Len(KeySeq) |->
                                  cleaned[KeySeq[i]].count
                                  + IF dropped(KeySeq[i]) THEN 1 ELSE 0])]
    ELSE IF "list" \in DOMAIN obj
    THEN LET cleaned == [i \in 1..Len(obj.list) |-> RemoveEmpty(obj.list[i])]
             dropped(i) == IsEmptyContainer(cleaned[i].v)
             kept == SelectSeq(cleaned, LAMBDA c : ~IsEmptyContainer(c.v))
         IN  [v |-> Lst([i \in 1..Len(kept) |-> kept[i].v]),
              count |-> SumSeq([i \in 1..Len(obj.list) |->
                                  cleaned[i].count
                                  + IF dropped(i) THEN 1 ELSE 0])]
    ELSE [v |-> obj, count |-> 0]

\* data.remove_empty().
CallRemoveEmpty ==
    /\ Len(tidyLog) < MaxTidyCalls
    /\ LET r == RemoveEmpty(tidy_data)
       IN  /\ tidy_data' = r.v
           /\ tidyLog' = Append(tidyLog, [before |-> tidy_data,
                                          count |-> r.count])
    /\ UNCHANGED TidyRest

InitTidy ==
    /\ IdleSite
    /\ IdleHttp
    /\ IdleWatch
    /\ IdleServe
    /\ IdleTools({"tidy"})
    /\ tidy_data \in TidyStores
    /\ tidyLog = <<>>

NextTidy == CallRemoveEmpty

SpecTidy == InitTidy /\ [][NextTidy]_vars

\* The values held by a container, a text holding none.
Children(obj) ==
    IF "map" \in DOMAIN obj
    THEN {obj.map[k] : k \in {j \in StoreKeys : In(j, obj.map)}}
    ELSE IF "list" \in DOMAIN obj THEN {obj.list[i] : i \in 1..Len(obj.list)}
    ELSE {}

IsContainer(obj) == "map" \in DOMAIN obj \/ "list" \in DOMAIN obj

\* No empty map and no empty sequence beneath obj.
RECURSIVE NoEmptyBeneath(_)
NoEmptyBeneath(obj) ==
    \A c \in Children(obj) :
        /\ ~(IsContainer(c) /\ Children(c) = {})
        /\ NoEmptyBeneath(c)

\* A container none of whose descendants is a text: cleaning empties it.
RECURSIVE Hollow(_)
Hollow(obj) == IsContainer(obj) /\ \A c \in Children(obj) : Hollow(c)

\* The number of hollow containers beneath obj, each place counted.
RECURSIVE HollowBeneath(_)
HollowBeneath(obj) ==
    LET each(c) == HollowBeneath(c) + IF Hollow(c) THEN 1 ELSE 0
    IN  IF "map" \in DOMAIN obj
        THEN SumSeq([i \in 1..Len(KeySeq) |->
                       IF In(KeySeq[i], obj.map) THEN each(obj.map[KeySeq[i]])
                       ELSE 0])
        ELSE IF "list" \in DOMAIN obj
        THEN SumSeq([i \in 1..Len(obj.list) |-> each(obj.list[i])])
        ELSE 0

\* C21: after remove_empty() no empty map and no empty sequence is left
\* beneath the root, the count returned is the number of containers
\* removed, and a call that follows another returns 0 and changes nothing.
C21_RemoveEmptyCollapses ==
    LET n == Len(tidyLog)
    IN  /\ n >= 1 => /\ NoEmptyBeneath(tidy_data)
                     /\ tidyLog[n].count = HollowBeneath(tidyLog[n].before)
        /\ n >= 2 => /\ tidyLog[n].count = 0
                     /\ tidy_data = tidyLog[n].before

\* Two calls on a store where a map became empty only once its children
\* were cleaned, and a sequence lost an item.
C21_Witness ==
    /\ Len(tidyLog) = 2
    /\ tidyLog[1].count >= 3
    /\ \E k \in StoreKeys :
          /\ "map" \in DOMAIN tidyLog[1].before.map[k]
          /\ Children(tidyLog[1].before.map[k]) # {}
          /\ Hollow(tidyLog[1].before.map[k])
          /\ ~In(k, tidy_data.map)
    /\ \E k \in StoreKeys :
          /\ "list" \in DOMAIN tidyLog[1].before.map[k]
          /\ In(k, tidy_data.map)
          /\ Len(tidy_data.map[k].list) < Len(tidyLog[1].before.map[k].list)


(***************************************************************************)
(* Generator.regenerate_page beside the page loop of Generator.generate    *)
(* (core/generator.py).  A page is its directory under src/pages and its   *)
(* stem; rendered HTML records the page, the version of the source it was  *)
(* rendered from and whether a post-generate hook has replaced it.         *)
(***************************************************************************)
MaxRegenCalls == 3

RegenRest == <<coreVars, shutVars, loadVars, buildVars, deployVars, dynVars,
               fpVars, smVars, storeVars, tidyVars, chgVars, ignVars, rpVars,
               assetVars, rebuildVars, servedVars>>

RgPages == {[dir |-> "", stem |-> "index"], [dir |-> "blog", stem |-> "index"]}
NoHtml == [page |-> [dir |-> "", stem |-> ""], src |-> 0, hooked |-> FALSE]

\* What plugin_loader.trigger("nitro.post_generate", ...) can return: None,
\* a dict without "output", a dict whose "output" is a modified HTML.
HookKinds == {"none", "dict", "output"}
HookResult(kind, html) ==
    [is_dict |-> kind # "none", has_output |-> kind = "output",
     output |-> [html EXCEPT !.hooked = TRUE]]

\* render_page of a page whose render succeeds.
RenderPage(page, version) == [page |-> page, src |-> version, hooked |-> FALSE]

\* An output path that forgets the page's directory.
C22_MutantGetOutputPath(page) == [dir |-> "", name |-> page.stem \o ".html"]

\* Renderer.get_output_path.
GetOutputPath(page) == [dir |-> page.dir, name |-> page.stem \o ".html"]

RgFiles == {GetOutputPath(p) : p \in RgPages}

\* "Use modified output if returned".
HookedHtml(html, hook_result) ==
    IF hook_result.is_dict /\ hook_result.has_output THEN hook_result.output
    ELSE html

\* The HTML generate() writes for a page: rendered, then passed through the
\* post-generate hook.
GeneratedHtml(page, version) ==
    LET html == RenderPage(page, version)
    IN  HookedHtml(html, HookResult(hook, html))

RgLogged(op, page, returned) ==
    Append(rgLog, [op |-> op, page |-> page, ret |-> returned, out |-> rgOut,
                   mem |-> rgMem, disk |-> rgDisk])

\* get_changed_pages, for a project with pages alone.
RgChanged == {p \in RgPages : rgMem[p] # Hash(rgSrc[p])}

\* generate(): every changed page is rendered, the pages in ok with
\* success; a success is written and its hash updated; the cache is saved.
RgGenerate(ok) ==
    /\ Len(rgLog) < MaxRegenCalls
    /\ ok \subseteq RgChanged
    /\ IF RgChanged = {}
       THEN UNCHANGED <<rgOut, rgMem, rgDisk>>
       ELSE /\ rgOut' = [f \in RgFiles |->
                           IF \E p \in ok : GetOutputPath(p) = f
                           THEN LET p == CHOOSE q \in ok : GetOutputPath(q) = f
                                IN  GeneratedHtml(p, rgSrc[p])
                           ELSE rgOut[f]]
            /\ rgMem' = [p \in RgPages |->
                           IF p \in ok THEN Hash(rgSrc[p]) ELSE rgMem[p]]
            /\ rgDisk' = rgMem'
    /\ rgLog' = RgLogged("generate", NoHtml.page, TRUE)
    /\ UNCHANGED <<rgSrc, hook, RegenRest>>

\* regenerate_page(page_path): rendered and written, or not rendered.
RegeneratePage(page, rendered) ==
    /\ Len(rgLog) < MaxRegenCalls
    /\ LET html == IF rendered THEN RenderPage(page, rgSrc[page]) ELSE NoHtml
       IN  IF html # NoHtml
           THEN /\ rgOut' = [rgOut EXCEPT ![GetOutputPath(page)] = html]
                /\ rgLog' = RgLogged("regenerate", page, TRUE)
           ELSE /\ rgOut' = rgOut
                /\ rgLog' = RgLogged("regenerate", page, FALSE)
    /\ UNCHANGED <<rgSrc, rgMem, rgDisk, hook, RegenRest>>

\* The user saves a page source.
RgEdit(page) ==
    /\ Len(rgLog) < MaxRegenCalls
    /\ rgSrc[page] < MaxVer
    /\ rgSrc' = [rgSrc EXCEPT ![page] = @ + 1]
    /\ UNCHANGED <<rgOut, rgMem, rgDisk, hook, rgLog, RegenRest>>

InitRegen ==
    /\ IdleSite
    /\ IdleHttp
    /\ IdleWatch
    /\ IdleServe
    /\ IdleTools({"regen"})
    /\ rgSrc = [p \in RgPages |-> 1]
    /\ rgOut = [f \in RgFiles |-> NoHtml]
    /\ rgMem = [p \in RgPages |-> NoEntry]
    /\ rgDisk = [p \in RgPages |-> NoEntry]
    /\ hook \in HookKinds
    /\ rgLog = <<>>

NextRegen ==
    \/ \E ok \in SUBSET RgPages : RgGenerate(ok)
    \/ \E page \in RgPages, rendered \in BOOLEAN : RegeneratePage(page, rendered)
    \/ \E page \in RgPages : RgEdit(page)

SpecRegen == InitRegen /\ [][NextRegen]_vars

\* C22: regenerate_page changes no output file but the page's own, the one
\* of the page's stem in the page's directory, and leaves the cache as it
\* was, in memory and on disk, whether the render succeeded or not.
C22_RegenerateFrame ==
    LET n == Len(rgLog)
    IN  n >= 1 /\ rgLog[n].op = "regenerate"
        => /\ \A f \in RgFiles :
                 rgOut[f] # rgLog[n].out[f]
                 => /\ f.dir = rgLog[n].page.dir
                    /\ f.name = rgLog[n].page.stem \o ".html"
           /\ rgMem = rgLog[n].mem
           /\ rgDisk = rgLog[n].disk

\* A page under blog/ was regenerated: its output changed, and the cache
\* does not hold the hash of its source.  A failed regeneration was seen
\* before it.
C22_Witness ==
    LET n == Len(rgLog)
    IN  /\ n >= 2
        /\ rgLog[n].op = "regenerate" /\ rgLog[n].ret
        /\ rgLog[n].page.dir = "blog"
        /\ rgOut # rgLog[n].out
        /\ rgMem[rgLog[n].page] # Hash(rgSrc[rgLog[n].page])
        /\ \E i \in 1..(n - 1) : rgLog[i].op = "regenerate" /\ ~rgLog[i].ret

\* C30: the HTML a successful regenerate_page leaves at the page's output
\* path is the HTML generate() writes for the same source, post-generate
\* hooks included.
C30_RegenerateAsGenerate ==
    LET n == Len(rgLog)
    IN  n >= 1 /\ rgLog[n].op = "regenerate" /\ rgLog[n].ret
        => rgOut[GetOutputPath(rgLog[n].page)]
              = GeneratedHtml(rgLog[n].page, rgSrc[rgLog[n].page])


(***************************************************************************)
(* on_file_change of serve (commands/serve.py) and of generate --watch     *)
(* (commands/generate.py): the same chain of tests in both.  A path is its *)
(* sequence of segments; str(path) contains a word when one of its         *)
(* segments does, none of the words holding a "/".                         *)
(***************************************************************************)
ChangeRest == <<coreVars, shutVars, loadVars, buildVars, deployVars, dynVars,
                fpVars, smVars, storeVars, tidyVars, regenVars, ignVars,
                rpVars, assetVars, rebuildVars, servedVars>>

ProjectRoots == {<<"home", "site">>, <<"home", "pages-site">>,
                 <<"srv", "public_html">>}
ChangedFiles ==
    {<<"src", "pages", "index.py">>, <<"src", "pages", "blog", "post.py">>,
     <<"src", "pages", "__init__.py">>, <<"src", "pages", "notes.txt">>,
     <<"src", "components", "header.py">>,
     <<"src", "components", "pages_nav.py">>,
     <<"src", "styles", "main.css">>, <<"src", "styles", "components.css">>,
     <<"src", "public", "logo.png">>, <<"src", "data", "site.json">>,
     <<"src", "data", "pages.json">>, <<"src", "plugins", "seo.py">>,
     <<"nitro.config.py">>}
\* The words of the tests that occur in a segment's text.
WordsIn(segment) ==
    CASE segment \in {"pages", "pages-site", "pages_nav.py", "pages.json"}
            -> {"pages"}
      [] segment \in {"components", "components.css"} -> {"components"}
      [] segment = "styles" -> {"styles"}
      [] segment \in {"public", "public_html"} -> {"public"}
      [] OTHER -> {}

\* word in str(path)
InPath(word, path) == \E i \in 1..Len(path) : word \in WordsIn(path[i])

\* path.name and path.suffix
PathName(path) == path[Len(path)]
PathSuffix(path) ==
    CASE PathName(path) \in {"index.py", "post.py", "__init__.py",
                             "header.py", "pages_nav.py", "seo.py",
                             "nitro.config.py"} -> ".py"
      [] PathName(path) \in {"main.css", "components.css"} -> ".css"
      [] PathName(path) \in {"site.json", "pages.json"} -> ".json"
      [] PathName(path) = "notes.txt" -> ".txt"
      [] PathName(path) = "logo.png" -> ".png"
      [] OTHER -> ""

\* The chain of tests of on_file_change: what the handler does for a path.
ChangeAction(path) ==
    IF InPath("pages", path)
    THEN IF PathSuffix(path) = ".py" /\ PathName(path) # "__init__.py"
         THEN "regenerate_page" ELSE "nothing"
    ELSE IF InPath("components", path) THEN "generate"
    ELSE IF InPath("styles", path) \/ InPath("public", path)
    THEN "copy_assets"
    ELSE IF PathName(path) = "nitro.config.py" THEN "new_generator_generate"
    ELSE "generate"

OnFileChange ==
    /\ chgDone = "none"
    /\ chgDone' = ChangeAction(chgPath)
    /\ UNCHANGED <<chgPath, chgMode, ChangeRest>>

InitChange ==
    /\ IdleSite
    /\ IdleHttp
    /\ IdleWatch
    /\ IdleServe
    /\ IdleTools({"change"})
    /\ \E root \in ProjectRoots, file \in ChangedFiles : chgPath = root \o file
    /\ chgMode \in {"serve", "generate --watch"}
    /\ chgDone = "none"

NextChange == OnFileChange

SpecChange == InitChange /\ [][NextChange]_vars

\* The action the classification policy assigns to a path: by the directory
\* the file is in under the project, and by its name.
PolicyAction(path) ==
    LET dirs == {path[i] : i \in 1..(Len(path) - 1)}
    IN  IF "pages" \in dirs /\ PathSuffix(path) = ".py"
           /\ PathName(path) # "__init__.py"
        THEN "regenerate_page"
        ELSE IF "pages" \notin dirs /\ "components" \in dirs THEN "generate"
        ELSE IF "pages" \notin dirs /\ ({"styles", "public"} \cap dirs) # {}
        THEN "copy_assets"
        ELSE IF PathName(path) = "nitro.config.py"
        THEN "new_generator_generate"
        ELSE "generate"

\* C23: for every changed path the handler takes the action the policy
\* assigns: one page regenerated for a page source under pages/, the whole
\* site for a path under components/, the assets copied for a path under
\* styles/ or public/, a new Generator and the whole site for the
\* configuration file, the whole site for any other path.
C23_ActionFollowsPolicy ==
    chgDone # "none" => chgDone = PolicyAction(chgPath)


(***************************************************************************)
(* NitroFileHandler._should_ignore and the two event handlers that call it *)
(* (core/watcher.py).  The observer watches src/ recursively and the       *)
(* project root itself; an event's path is its segments under the root.    *)
(***************************************************************************)
IgnoreRest == <<coreVars, shutVars, loadVars, buildVars, deployVars, dynVars,
                fpVars, smVars, storeVars, tidyVars, regenVars, chgVars,
                rpVars, assetVars, rebuildVars, servedVars>>

EventPaths ==
    {<<"src", "pages", "index.py">>, <<"src", "pages", "index.py~">>,
     <<"src", "pages", ".#index.py">>, <<"src", "pages", ".index.py.swp">>,
     <<"src", "pages", "__pycache__", "index.cpython-311.pyc">>,
     <<"src", "pages", "index.pyo">>, <<"src", "components", "header.py">>,
     <<"src", "components", ".DS_Store">>, <<"src", ".idea", "workspace.xml">>,
     <<"src", ".vscode", "settings.json">>, <<"src", "styles", "main.css">>,
     <<"src", "styles", "main.css~">>, <<"src", "build", "notes.py">>,
     <<"src", "pages", "build.py">>, <<"src", "data", "site.json">>,
     <<"src", "data", "site.json.swp">>, <<"nitro.config.py">>,
     <<"nitro.config.py~">>, <<".gitignore">>, <<".#nitro.config.py">>}

ignore_patterns == <<"__pycache__", ".pyc", ".pyo", ".git", ".nitro",
                     "build/", ".idea", ".vscode", ".DS_Store">>

\* pattern in path_str, for a pattern without "/": it occurs in the text
\* of a segment.
SegmentHas(segment, pattern) ==
    CASE pattern = "__pycache__" -> segment = "__pycache__"
      [] pattern = ".pyc" -> segment = "index.cpython-311.pyc"
      [] pattern = ".pyo" -> segment = "index.pyo"
      [] pattern = ".git" -> segment = ".gitignore"
      [] pattern = ".idea" -> segment = ".idea"
      [] pattern = ".vscode" -> segment = ".vscode"
      [] pattern = ".DS_Store" -> segment = ".DS_Store"
      [] OTHER -> FALSE

\* pattern in path_str; "build/" occurs where a segment that ends in
\* "build" is followed by another.
PatternInPath(pattern, path) ==
    IF pattern = "build/"
    THEN \E i \in 1..(Len(path) - 1) : path[i] = "build"
    ELSE \E i \in 1..Len(path) : SegmentHas(path[i], pattern)

\* _should_ignore(path)
ShouldIgnorePath(path) ==
    \E i \in 1..Len(ignore_patterns) : PatternInPath(ignore_patterns[i], path)

\* on_modified(event) and on_created(event), for an event on a file.
HandleEvent ==
    /\ evCalled = "pending"
    /\ evCalled' = IF ShouldIgnorePath(evPath) THEN "dropped"
                   ELSE IF evKind = "modified" /\ evRecent THEN "dropped"
                   ELSE "called"
    /\ UNCHANGED <<evPath, evKind, evRecent, IgnoreRest>>

InitIgnore ==
    /\ IdleSite
    /\ IdleHttp
    /\ IdleWatch
    /\ IdleServe
    /\ IdleTools({"ignore"})
    /\ evPath \in EventPaths
    /\ evKind \in {"modified", "created"}
    /\ evRecent \in BOOLEAN
    /\ evCalled = "pending"

NextIgnore == HandleEvent

SpecIgnore == InitIgnore /\ [][NextIgnore]_vars

\* The name is an editor's transient file: it ends in "~", starts with ".#"
\* or ends in ".swp".
EditorTransient(name) ==
    name \in {"index.py~", ".#index.py", ".index.py.swp", "main.css~",
              "site.json.swp", "nitro.config.py~", ".#nitro.config.py"}

\* The path is under a directory, or is a file, that one of the fixed
\* ignore rules names.
FixedIgnored(path) ==
    \E i \in 1..Len(path) :
        \/ path[i] \in {"__pycache__", "index.cpython-311.pyc", "index.pyo",
                        ".idea", ".vscode", ".DS_Store"}
        \/ i < Len(path) /\ path[i] = "build"

\* C24: the callback is never invoked for a path that an ignore rule
\* matches, a fixed ignored substring or an editor's transient file name.
C24_IgnoredNeverCalled ==
    evCalled = "called"
    => ~FixedIgnored(evPath) /\ ~EditorTransient(evPath[Len(evPath)])


(***************************************************************************)
(* Renderer.render_page run by the workers of generate()'s                 *)
(* ThreadPoolExecutor (core/renderer.py, core/generator.py).  sys.path is  *)
(* one list shared by the threads; a thread can be switched out between    *)
(* any two statements, a test and the statement it guards included.        *)
(***************************************************************************)
MaxWorkers == 2

RenderRest == <<coreVars, shutVars, loadVars, buildVars, deployVars, dynVars,
                fpVars, smVars, storeVars, tidyVars, regenVars, chgVars,
                ignVars, assetVars, rebuildVars, servedVars>>

RenderWorkers == 1..MaxWorkers
PathEntries == <<"project_root", "src_dir">>

\* list.remove(x): the first occurrence is dropped.
RECURSIVE RemoveFirst(_, _)
RemoveFirst(list, entry) ==
    IF list = <<>> THEN <<>>
    ELSE IF Head(list) = entry THEN Tail(list)
    ELSE <<Head(list)>> \o RemoveFirst(Tail(list), entry)

InList(entry, list) == \E i \in 1..Len(list) : list[i] = entry

At(place, i) == [at |-> place, i |-> i]

\* "if str(project_root) not in sys.path" (i = 1) and the same test for
\* src_dir (i = 2).
TestEntry(w, i) ==
    /\ rpPc[w] = At("test", i)
    /\ rpAbsent' = [rpAbsent EXCEPT ![w] = ~InList(PathEntries[i], sys_path)]
    /\ rpPc' = [rpPc EXCEPT ![w] = At("insert", i)]
    /\ UNCHANGED <<sys_path, paths_to_remove, RenderRest>>

\* sys.path.insert(0, ...) and paths_to_remove.append(...), when the test
\* found the entry missing.
InsertEntry(w, i) ==
    /\ rpPc[w] = At("insert", i)
    /\ IF rpAbsent[w]
       THEN /\ sys_path' = <<PathEntries[i]>> \o sys_path
            /\ paths_to_remove' =
                  [paths_to_remove EXCEPT ![w] = Append(@, PathEntries[i])]
       ELSE UNCHANGED <<sys_path, paths_to_remove>>
    /\ rpPc' = [rpPc EXCEPT ![w] = IF i < Len(PathEntries)
                                    THEN At("test", i + 1)
                                    ELSE At("load", 0)]
    /\ UNCHANGED <<rpAbsent, RenderRest>>

\* spec.loader.exec_module(module): the page's module starts to run.
ExecModule(w) ==
    /\ rpPc[w] = At("load", 0)
    /\ rpPc' = [rpPc EXCEPT ![w] = At("rendering", 0)]
    /\ UNCHANGED <<sys_path, rpAbsent, paths_to_remove, RenderRest>>

\* module.render() returns, or the load or the render raises: the finally
\* clause is entered.
RenderReturns(w) ==
    /\ rpPc[w] = At("rendering", 0)
    /\ rpPc' = [rpPc EXCEPT ![w] = At("cleanup", 0)]
    /\ UNCHANGED <<sys_path, rpAbsent, paths_to_remove, RenderRest>>

\* The finally clause: each of paths_to_remove is removed from sys.path if
\* it is there.
CleanupStep(w) ==
    /\ rpPc[w] = At("cleanup", 0)
    /\ IF paths_to_remove[w] = <<>>
       THEN /\ rpPc' = [rpPc EXCEPT ![w] = At("done", 0)]
            /\ UNCHANGED <<sys_path, paths_to_remove>>
       ELSE /\ sys_path' = RemoveFirst(sys_path, Head(paths_to_remove[w]))
            /\ paths_to_remove' = [paths_to_remove EXCEPT ![w] = Tail(@)]
            /\ UNCHANGED rpPc
    /\ UNCHANGED <<rpAbsent, RenderRest>>

InitRender ==
    /\ IdleSite
    /\ IdleHttp
    /\ IdleWatch
    /\ IdleServe
    /\ IdleTools({"render"})
    /\ sys_path = <<>>
    /\ rpPc = [w \in RenderWorkers |-> At("test", 1)]
    /\ rpAbsent = [w \in RenderWorkers |-> FALSE]
    /\ paths_to_remove = [w \in RenderWorkers |-> <<>>]

NextRender ==
    \E w \in RenderWorkers :
        \/ \E i \in 1..Len(PathEntries) : TestEntry(w, i)
        \/ \E i \in 1..Len(PathEntries) : InsertEntry(w, i)
        \/ ExecModule(w)
        \/ RenderReturns(w)
        \/ CleanupStep(w)

SpecRender == InitRender /\ [][NextRender]_vars

\* C25: while a worker is between the load of its page's module and the
\* return of render(), the project root and the src directory are both on
\* sys.path.
C25_ImportPathDuringRender ==
    \A w \in RenderWorkers :
        rpPc[w] = At("rendering", 0)
        => \A i \in 1..Len(PathEntries) : InList(PathEntries[i], sys_path)


(***************************************************************************)
(* Generator._copy_assets inside Generator.generate (core/generator.py).   *)
(* Pages enter only through the tests that decide where generate() ends.   *)
(***************************************************************************)
AssetRest == <<coreVars, shutVars, loadVars, buildVars, deployVars, dynVars,
               fpVars, smVars, storeVars, tidyVars, regenVars, chgVars,
               ignVars, rpVars, rebuildVars, servedVars>>

AssetFiles == {[dir |-> "styles", rel |-> <<"main.css">>],
               [dir |-> "public", rel |-> <<"logo.png">>],
               [dir |-> "public", rel |-> <<"assets", "styles", "main.css">>]}
NoCopy == [of |-> [dir |-> "", rel |-> <<>>], v |-> Absent]

\* dest / relative: styles go to build/assets/styles, public to build/.
DestFile(file) ==
    IF file.dir = "styles" THEN <<"assets", "styles">> \o file.rel
    ELSE file.rel

BuildPaths == {DestFile(f) : f \in AssetFiles}

\* A copy that copies nothing.
C26_MutantCopyDirectory(src, build, dir) == build

\* _copy_directory(src, dest, name): every file under the source directory
\* is copied over its destination.
CopyDirectory(src, build, dir) ==
    [d \in BuildPaths |->
        IF \E f \in AssetFiles : f.dir = dir /\ src[f] # Absent
                                  /\ DestFile(f) = d
        THEN LET f == CHOOSE g \in AssetFiles :
                         g.dir = dir /\ src[g] # Absent /\ DestFile(g) = d
             IN  [of |-> f, v |-> src[f]]
        ELSE build[d]]

\* _copy_assets: styles first, then public.
CopyAssets(src, build) ==
    CopyDirectory(src, CopyDirectory(src, build, "styles"), "public")

\* generate(force=...): no page found; every page up to date; or the run
\* to its end, the assets copied.
AsGenerate(forced) ==
    /\ IF ~asPages
       THEN /\ asLast' = [op |-> "generate", ended |-> "no_pages",
                          ret |-> FALSE]
            /\ UNCHANGED <<asBuild, asStale>>
       ELSE IF ~forced /\ ~asStale /\ ~asDynamic
       THEN /\ asLast' = [op |-> "generate", ended |-> "up_to_date",
                          ret |-> TRUE]
            /\ UNCHANGED <<asBuild, asStale>>
       ELSE /\ asBuild' = CopyAssets(asSrc, asBuild)
            /\ asStale' = FALSE
            /\ asLast' = [op |-> "generate", ended |-> "complete",
                          ret |-> TRUE]
    /\ UNCHANGED <<asSrc, asPages, asDynamic, AssetRest>>

\* The user saves or adds a file under styles/ or public/.
AsEditAsset(file) ==
    /\ asSrc[file] < MaxVer
    /\ asSrc' = [asSrc EXCEPT ![file] = @ + 1]
    /\ asLast' = [op |-> "edit", ended |-> "none", ret |-> FALSE]
    /\ UNCHANGED <<asBuild, asPages, asDynamic, asStale, AssetRest>>

\* The user saves a page source.
AsEditPage ==
    /\ asPages /\ ~asStale
    /\ asStale' = TRUE
    /\ asLast' = [op |-> "edit", ended |-> "none", ret |-> FALSE]
    /\ UNCHANGED <<asSrc, asBuild, asPages, asDynamic, AssetRest>>

InitAssets ==
    /\ IdleSite
    /\ IdleHttp
    /\ IdleWatch
    /\ IdleServe
    /\ IdleTools({"assets"})
    /\ asSrc \in [AssetFiles -> {Absent, 1}]
    /\ asBuild = [d \in BuildPaths |-> NoCopy]
    /\ asPages \in BOOLEAN
    /\ asDynamic \in BOOLEAN
    /\ asStale = asPages
    /\ asLast = [op |-> "none", ended |-> "none", ret |-> FALSE]

NextAssets ==
    \/ \E forced \in BOOLEAN : AsGenerate(forced)
    \/ \E file \in AssetFiles : AsEditAsset(file)
    \/ AsEditPage

SpecAssets == InitAssets /\ [][NextAssets]_vars

UpToDateCopy(file) == asBuild[DestFile(file)] = [of |-> file, v |-> asSrc[file]]

\* C26 as stated: after any generate() that returned true, every file
\* under styles/ and public/ has an up-to-date copy in the build
\* directory.
C26_AssetsUpToDate ==
    asLast.op = "generate" /\ asLast.ret
    => \A f \in AssetFiles : asSrc[f] # Absent => UpToDateCopy(f)

\* A file under styles/ whose destination a file under public/ shares.
Shadowed(file) ==
    /\ file.dir = "styles"
    /\ \E g \in AssetFiles : /\ g.dir = "public"
                             /\ asSrc[g] # Absent
                             /\ DestFile(g) = DestFile(file)

\* C26, amended: after a generate() that returned true past the up-to-date
\* test, every file under public/ has an up-to-date copy, and so has every
\* file under styles/ whose destination no file under public/ shares.
C26_AssetsCopiedByFullRun ==
    asLast.op = "generate" /\ asLast.ret /\ asLast.ended = "complete"
    => \A f \in AssetFiles :
          (asSrc[f] # Absent /\ ~Shadowed(f)) => UpToDateCopy(f)

\* A run went to its end and copied a stylesheet that had been edited,
\* and a file under public/.
C26_Witness ==
    /\ asLast.op = "generate" /\ asLast.ended = "complete"
    /\ \E f \in AssetFiles :
          /\ f.dir = "styles"
          /\ asSrc[f] = MaxVer
          /\ UpToDateCopy(f)
    /\ \E g \in AssetFiles : g.dir = "public" /\ asSrc[g] # Absent
                             /\ UpToDateCopy(g)


(***************************************************************************)
(* The build command run again and again on one project whose sources do   *)
(* not change (commands/build.py).  The content of an asset is the same in *)
(* every run, so its hash is too: a file name in the build directory is    *)
(* the source name and the number of ".<hash>" segments before its suffix. *)
(* A page's HTML is the hash segments of the stylesheet name in its link   *)
(* (NoLink for a page without a link) and its number of hydration scripts. *)
(***************************************************************************)
RebuildRest == <<coreVars, shutVars, loadVars, buildVars, deployVars,
                 dynVars, fpVars, smVars, storeVars, tidyVars, regenVars,
                 chgVars, ignVars, rpVars, assetVars, servedVars>>

MaxBuildRuns == 3

RbPages == {"index", "about"}
RbSources == {"main.css", "app.js"}
NoLink == -1
Unbuilt == [built |-> FALSE, link |-> NoLink, scripts |-> 0]

\* Generator.clean: the build directory is removed.
CleanBuild(dir) ==
    [assets |-> {}, html |-> [p \in RbPages |-> Unbuilt]]

\* Generator.generate(force): nothing is written when the cache finds no
\* page to rebuild; otherwise every page is rendered and written and the
\* stylesheets and scripts are copied under their source names.
GenerateBuild(dir, forced, cached) ==
    IF cached /\ ~forced THEN dir
    ELSE [assets |-> dir.assets \cup {[name |-> n, hashes |-> 0] : n \in RbSources},
          html |-> [p \in RbPages |->
                      [built |-> TRUE,
                       link |-> IF rbSrc[p].link THEN 0 ELSE NoLink,
                       scripts |-> 0]]]

\* new_name = f"{stem}.{content_hash}{suffix}": one more hash segment.
Hashed(asset) == [asset EXCEPT !.hashes = @ + 1]

\* The renames, in the order rglob gave the files.
RECURSIVE RenameAll(_, _)
RenameAll(files, order) ==
    IF order = <<>> THEN files
    ELSE RenameAll((files \ {order[1]}) \cup {Hashed(order[1])}, Tail(order))

\* The patterns of every (old_path, new_path) of the mapping, in the
\* mapping's order, on a link to the stylesheet.
RECURSIVE RelinkAll(_, _)
RelinkAll(link, order) ==
    IF order = <<>> THEN link
    ELSE RelinkAll(IF order[1].name = "main.css" /\ link = order[1].hashes
                   THEN Hashed(order[1]).hashes ELSE link,
                   Tail(order))

\* The orders in which rglob("*.css") and then rglob("*.js") can list the
\* files of the build directory.
RglobOrders(files) ==
    {s \in UNION {[1..n -> files] : n \in {Cardinality(files)}} :
        /\ \A i, j \in DOMAIN s : i # j => s[i] # s[j]
        /\ \A i, j \in DOMAIN s :
              s[i].name = "app.js" /\ s[j].name = "main.css" => j < i}

\* Bundler.fingerprint_assets with the files listed in the given order.
FingerprintBuild(dir, order) ==
    [assets |-> RenameAll(dir.assets, order),
     html |-> [p \in RbPages |->
                 IF dir.html[p].built
                 THEN [dir.html[p] EXCEPT !.link = RelinkAll(@, order)]
                 ELSE dir.html[p]]]

\* IslandProcessor.process_html on every HTML file that holds
\* 'data-island=': one more script before </body>.
IslandsBuild(dir) ==
    [dir EXCEPT !.html =
        [p \in RbPages |->
            IF dir.html[p].built /\ rbSrc[p].island
            THEN [dir.html[p] EXCEPT !.scripts = @ + 1]
            ELSE dir.html[p]]]

\* One run of the build command, from the clean to the islands.
Build ==
    /\ rbRuns < MaxBuildRuns
    /\ LET dir0 == [assets |-> rbAssets, html |-> rbHtml]
           dir1 == IF rbFlags.clean THEN CleanBuild(dir0) ELSE dir0
           dir2 == GenerateBuild(dir1, rbFlags.force \/ rbFlags.clean, rbCached)
       IN \E order \in RglobOrders(dir2.assets) :
            LET dir3 == IF rbFlags.fingerprint
                        THEN FingerprintBuild(dir2, order) ELSE dir2
                dir4 == IF rbFlags.islands THEN IslandsBuild(dir3) ELSE dir3
            IN /\ rbAssets' = dir4.assets
               /\ rbHtml' = dir4.html
               /\ rbPrev' = dir0
    /\ rbCached' = TRUE
    /\ rbRuns' = rbRuns + 1
    /\ UNCHANGED <<RebuildRest, rbSrc, rbFlags>>

\* SpecRebuild: a project of two pages, each with or without an island
\* and a link to the stylesheet, never built before, and the command run
\* up to three times with the same options.
InitRebuild ==
    /\ IdleSite
    /\ IdleHttp
    /\ IdleWatch
    /\ IdleServe
    /\ IdleTools({"rebuild"})
    /\ rbSrc \in [RbPages -> [island : BOOLEAN, link : BOOLEAN]]
    /\ rbFlags \in [clean : BOOLEAN, force : BOOLEAN,
                    fingerprint : BOOLEAN, islands : BOOLEAN]
    /\ rbAssets = {}
    /\ rbHtml = [p \in RbPages |-> Unbuilt]
    /\ rbCached = FALSE
    /\ rbRuns = 0
    /\ rbPrev = [assets |-> {}, html |-> [p \in RbPages |-> Unbuilt]]

NextRebuild == Build

SpecRebuild == InitRebuild /\ [][NextRebuild]_vars

\* C27: a run of the build command that follows another on unchanged
\* sources leaves the build directory as the run before left it: the same
\* asset file names and the same content of each HTML file.
C27_BuildIdempotent ==
    rbRuns >= 2 => /\ rbAssets = rbPrev.assets
                   /\ rbHtml = rbPrev.html


(***************************************************************************)
(* serve_async (commands/serve.py): the directory the server reads and     *)
(* the directory the Generator writes, on a project of one page whose      *)
(* configuration file names the build directory.                           *)
(***************************************************************************)
ServedRest == <<coreVars, shutVars, loadVars, buildVars, deployVars, dynVars,
                fpVars, smVars, storeVars, tidyVars, regenVars, chgVars,
                ignVars, rpVars, assetVars, rebuildVars>>

MaxServedEdits == 3

BuildDirNames == {"build", "dist", "out"}

\* Generator.generate() of a Generator whose build_dir is dir: a changed
\* configuration forces the run, and a run that finds the page up to
\* date writes nothing.
ServedGenerate(dir) ==
    LET forced == svCache.config # svConfig
        outdated == svCache.page # svSource
    IN /\ svDisk' = IF forced \/ outdated THEN [svDisk EXCEPT ![dir] = svSource]
                    ELSE svDisk
       /\ svCache' = [config |-> svConfig,
                      page |-> IF forced \/ outdated THEN svSource ELSE svCache.page]

\* The author saves nitro.config.py with another build_dir.
SvEditConfig(dir) ==
    /\ svEdits < MaxServedEdits
    /\ dir # svConfig
    /\ svConfig' = dir
    /\ svEdits' = svEdits + 1
    /\ UNCHANGED <<ServedRest, svSource, svGenerator, svServer, svDisk, svCache,
                   svReply>>

\* The author saves the page.
SvEditPage ==
    /\ svEdits < MaxServedEdits
    /\ svSource' = svSource + 1
    /\ svEdits' = svEdits + 1
    /\ UNCHANGED <<ServedRest, svConfig, svGenerator, svServer, svDisk, svCache,
                   svReply>>

\* on_file_change for nitro.config.py: generator = Generator(), which
\* loads the configuration, then generator.generate().
OnConfigChange ==
    /\ svGenerator' = svConfig
    /\ ServedGenerate(svConfig)
    /\ UNCHANGED <<ServedRest, svConfig, svSource, svServer, svEdits, svReply>>

\* on_file_change for the page: generator.regenerate_page(path).
OnPageChange ==
    /\ svDisk' = [svDisk EXCEPT ![svGenerator] = svSource]
    /\ UNCHANGED <<ServedRest, svConfig, svSource, svGenerator, svServer,
                   svCache, svEdits, svReply>>

\* LiveReloadServer.serve_file: file_path = self.build_dir / path.
SvServeFile ==
    /\ svReply' = [dir |-> svServer, v |-> svDisk[svServer]]
    /\ UNCHANGED <<ServedRest, svConfig, svSource, svGenerator, svServer,
                   svDisk, svCache, svEdits>>

\* SpecServed: serve has started on a project never built before: the
\* Generator has loaded the configuration and generated the site, and
\* the server was made with generator.build_dir.
InitServed ==
    /\ IdleSite
    /\ IdleHttp
    /\ IdleWatch
    /\ IdleServe
    /\ IdleTools({"served"})
    /\ svConfig \in BuildDirNames
    /\ svSource = 1
    /\ svGenerator = svConfig
    /\ svServer = svConfig
    /\ svDisk = [d \in BuildDirNames |-> IF d = svConfig THEN 1 ELSE 0]
    /\ svCache = [config |-> svConfig, page |-> 1]
    /\ svEdits = 0
    /\ svReply = [dir |-> svConfig, v |-> 1]

NextServed ==
    \/ \E dir \in BuildDirNames : SvEditConfig(dir)
    \/ SvEditPage
    \/ OnConfigChange
    \/ OnPageChange
    \/ SvServeFile

SpecServed == InitServed /\ [][NextServed]_vars

\* C29: while serve runs, the directory the HTTP server serves files from
\* is the build directory of the Generator in use, also after the
\* Generator has been made anew for a change of the configuration file.
C29_ServerFollowsGenerator ==
    svServer = svGenerator

=============================================================================
